---- MODULE Spec2Model ----
(***************************************************************************)
(* Model of the AutoBI front end (Kesh3805/autobi): the query-history      *)
(* ledger hook useQueryHistory (components/QueryHistory.tsx), the history  *)
(* panel that instantiates it, and the Home page (app/page.tsx) that       *)
(* instantiates it a second time and feeds it from handleQuery.            *)
(*                                                                         *)
(* JavaScript values are modelled structurally: a string is a sequence of  *)
(* one-character strings, a primitive is a tagged record, an object is the *)
(* sequence of its own properties in insertion order.                      *)
(***************************************************************************)
EXTENDS Integers, Sequences, FiniteSets, TLC

VARIABLES
    storage,        \* localStorage[STORAGE_KEY]
    history,        \* useState value of each useQueryHistory instance
    mounted,        \* which instances are mounted
    hydrated,       \* which instances have run their mount effect
    clock,          \* Date.now()
    nextRand,       \* next value Math.random() yields
    lastCall,       \* the handler that ran last, and what it did
    removed,        \* ids removed or cleared through the history panel
    tables,         \* Home: tables
    selectedTable,  \* Home: selectedTable
    isLoading,      \* Home: isLoading
    error,          \* Home: error
    queryResult,    \* Home: queryResult
    showHistory,    \* Home: showHistory
    isExpanded,     \* QueryHistory: isExpanded
    showAll,        \* QueryHistory: showAll
    pending,        \* fetches in flight, with the closure that awaits each
    crashed,        \* a render threw: the error boundary replaced the page
    dataRows,       \* results view: the rows of the result set (props.data)
    columns,        \* results view: the declared columns (props.columns)
    sortColumn,     \* DataTable: sortColumn
    sortDirection,  \* DataTable: sortDirection
    page,           \* DataTable: page
    searchTerm,     \* DataTable: searchTerm
    engine,         \* the argument order in which Array.prototype.sort calls its comparator
    stats,          \* SummaryStats: the cards computed by the last render
    exportButton,   \* ExportButton: isOpen, copied, pending setCopied(false) timers
    exported,       \* the text last handed to downloadFile or to the clipboard
    questionInput,  \* QueryInterface: question
    recentQueries,  \* QueryInterface: props.recentQueries
    suggestions,    \* QueryInterface: the value of the suggestions memo
    toasts,         \* ToastProvider: toasts
    toastTimers,    \* ids whose setTimeout(() => removeToast(id), duration) is pending
    toastSeq,       \* how many toast ids Math.random() has issued
    homeMounted,    \* Home is mounted
    backendStatus,  \* Home: backendStatus
    healthInterval, \* the setInterval(checkBackendHealth, 30000) is registered
    healthChecks    \* the runs of checkBackendHealth: fetch and abort timer of each

ledgerVars == <<storage, history, mounted, hydrated, clock, nextRand, lastCall, removed>>
homeVars == <<tables, selectedTable, isLoading, error, queryResult, showHistory,
              isExpanded, showAll, pending, crashed>>
viewVars == <<dataRows, columns, sortColumn, sortDirection, page, searchTerm, engine, stats>>
widgetVars == <<exportButton, exported, questionInput, recentQueries, suggestions>>
serviceVars == <<toasts, toastTimers, toastSeq, homeMounted, backendStatus, healthInterval,
                 healthChecks>>
vars == <<ledgerVars, homeVars, viewVars, widgetVars, serviceVars>>
ledgerVars_but_lastCall == <<storage, history, mounted, hydrated, clock, nextRand, removed>>

----------------------------------------------------------------------------
(* Program constants *)

MAX_HISTORY == 50

STORAGE_KEY == "autobi_query_history"

(* Bounds of the model *)

MaxApiCalls == 3    \* calls made on the hook taken on its own
MaxHomeCalls == 6   \* handler runs of the Home page in a session
MaxPending == 2     \* fetches in flight at once

----------------------------------------------------------------------------
(* JavaScript primitives *)

Undefined == [ty |-> "undefined", n |-> 0, s |-> <<>>]
Null == [ty |-> "null", n |-> 0, s |-> <<>>]
Num(n) == [ty |-> "number", n |-> n, s |-> <<>>]
Str(s) == [ty |-> "string", n |-> 0, s |-> s]

IsString(v) == v.ty = "string"

\* JS truthiness of a primitive: undefined, null, "" and 0 are falsy.
Truthy(v) ==
    CASE v.ty = "undefined" -> FALSE
      [] v.ty = "null" -> FALSE
      [] v.ty = "string" -> Len(v.s) > 0
      [] OTHER -> v.n # 0

Min(a, b) == IF a < b THEN a ELSE b

(* Strings *)

UpperCase ==
    <<"A", "B", "C", "D", "E", "F", "G", "H", "I", "J", "K", "L", "M",
      "N", "O", "P", "Q", "R", "S", "T", "U", "V", "W", "X", "Y", "Z">>
LowerCase ==
    <<"a", "b", "c", "d", "e", "f", "g", "h", "i", "j", "k", "l", "m",
      "n", "o", "p", "q", "r", "s", "t", "u", "v", "w", "x", "y", "z">>

UpperLetters == {UpperCase[i] : i \in 1..26}

\* The lower-case letter of each upper-case letter
LowerOf == [c \in UpperLetters |-> LowerCase[CHOOSE i \in 1..26 : UpperCase[i] = c]]

LowerChar(c) == IF c \in UpperLetters THEN LowerOf[c] ELSE c

\* String.prototype.toLowerCase
ToLowerCase(s) == [i \in 1..Len(s) |-> LowerChar(s[i])]

\* The white space of the model: what trim() strips and \s matches.
WhiteSpace == {" ", "\t", "\n"}

RECURSIVE TrimStart(_)
TrimStart(s) == IF Len(s) > 0 /\ s[1] \in WhiteSpace THEN TrimStart(Tail(s)) ELSE s

RECURSIVE TrimEnd(_)
TrimEnd(s) ==
    IF Len(s) > 0 /\ s[Len(s)] \in WhiteSpace THEN TrimEnd(SubSeq(s, 1, Len(s) - 1)) ELSE s

\* String.prototype.trim
Trim(s) == TrimEnd(TrimStart(s))

DigitChars == <<"0", "1", "2", "3", "4", "5", "6", "7", "8", "9">>

\* The decimal string of a non-negative integer, as a template literal prints it.
RECURSIVE NumberToString(_)
NumberToString(n) ==
    IF n < 10 THEN <<DigitChars[n + 1]>>
    ELSE NumberToString(n \div 10) \o <<DigitChars[(n % 10) + 1]>>

(* Objects: the sequence of own properties, in insertion order *)

HasKey(o, k) == \E i \in 1..Len(o) : o[i].k = k

\* o[k]: the property's value, undefined when the object has no such property.
Get(o, k) ==
    IF HasKey(o, k) THEN o[CHOOSE i \in 1..Len(o) : o[i].k = k].v ELSE Undefined

\* { ...o, k: v }: an existing property keeps its place, a new one goes last.
Put(o, k, v) ==
    IF HasKey(o, k)
    THEN [i \in 1..Len(o) |-> IF o[i].k = k THEN [k |-> k, v |-> v] ELSE o[i]]
    ELSE Append(o, [k |-> k, v |-> v])

\* Property access on a primitive string: a string has no such own property.
PropertyOfString(str, k) == Undefined

(* The values setHistory can hold: an array of objects, or what JSON.parse
   made of a stored text that was no array. *)

ArrayOf(items) == [kind |-> "array", items |-> items]
NonArray(kind) == [kind |-> kind, items |-> <<>>]
IsArray(h) == h.kind = "array"

(* JSON *)

\* JSON.stringify of an object: properties whose value is undefined are left out.
StringifyObject(o) == SelectSeq(o, LAMBDA p : p.v.ty # "undefined")

\* JSON.stringify(value): the text, represented by the document it denotes.
JSONstringify(h) ==
    [kind |-> "json",
     doc |-> [kind |-> h.kind,
              items |-> [i \in 1..Len(h.items) |-> StringifyObject(h.items[i])]]]

\* localStorage.getItem results: null (no such key), or a text.
Absent == [kind |-> "absent", doc |-> NonArray("null")]
EmptyText == [kind |-> "empty", doc |-> NonArray("null")]
GarbageText == [kind |-> "garbage", doc |-> NonArray("null")]
JsonText(doc) == [kind |-> "json", doc |-> doc]

\* if (stored): null and "" are falsy.
StoredTruthy(st) == st.kind \notin {"absent", "empty"}

\* JSON.parse(text): throws SyntaxError unless the text is JSON.
JSONparse(st) == [threw |-> st.kind # "json", value |-> st.doc]

----------------------------------------------------------------------------
(* useQueryHistory *)

Instances == {"page", "panel"}

\* What one handler run did, kept for the properties that speak of "the call".
\*   handler: the event handler or continuation that ran
\*   outcome: how it ended
\*   op     : the useQueryHistory operation it invoked ("none" if none)
\*   inst   : the hook instance the operation belongs to
\*   threw  : the operation's updater threw
\*   item   : the item passed to addToHistory
\*   arg    : the question added, or the id removed
\*   hit    : add: the question was already there; remove: the id was there
\*   before : the instance's value before the operation
\*   n      : the number of handler runs so far
Call(handler, outcome, op, inst, threw, item, arg, before, hit) ==
    [handler |-> handler, outcome |-> outcome, op |-> op, inst |-> inst,
     threw |-> threw, item |-> item, arg |-> arg, before |-> before, hit |-> hit,
     n |-> lastCall.n + 1]

NoCall ==
    [handler |-> "none", outcome |-> "none", op |-> "none", inst |-> "none",
     threw |-> FALSE, item |-> <<>>, arg |-> Undefined, before |-> ArrayOf(<<>>), hit |-> FALSE, n |-> 0]

\* `${Date.now()}-${Math.random().toString(36).slice(2)}`; Math.random() is
\* taken to yield a value it has not yielded before.
IdOf(t, r) == Str(NumberToString(t) \o <<"-">> \o NumberToString(r))

\* { ...item, id, timestamp }
NewItem(item, t1, r, t2) == Put(Put(item, "id", IdOf(t1, r)), "timestamp", Num(t2))

\* h.question.toLowerCase() is a TypeError unless h.question is a string.
LowerCaseThrows(o) == ~IsString(Get(o, "question"))

SameQuestionExactCase(h, item) == Get(h, "question") = Get(item, "question")

\* h.question.toLowerCase() !== item.question.toLowerCase(), negated
SameQuestion(h, item) ==
    ToLowerCase(Get(h, "question").s) = ToLowerCase(Get(item, "question").s)

SliceOneTooMany(s, n) == SubSeq(s, 1, Min(n + 1, Len(s)))

\* Array.prototype.slice(0, n)
Slice(s, n) == SubSeq(s, 1, Min(n, Len(s)))

PutLast(newItem, filtered) == Append(filtered, newItem)

\* [newItem, ...filtered]
Prepend(newItem, filtered) == <<newItem>> \o filtered

\* The updater of addToHistory throws when prev is no array (prev.filter is
\* not a function) or when the filter callback, run once per element, throws.
AddThrows(prev, item) ==
    \/ ~IsArray(prev)
    \/ \E i \in 1..Len(prev.items) :
          LowerCaseThrows(prev.items[i]) \/ LowerCaseThrows(item)

\* prev => [newItem, ...prev.filter(...)].slice(0, MAX_HISTORY)
AddUpdater(prev, item, newItem) ==
    LET filtered == SelectSeq(prev.items, LAMBDA h : ~SameQuestion(h, item))
    IN  ArrayOf(Slice(Prepend(newItem, filtered), MAX_HISTORY))

KeepOnlyTheId(h, id) == Get(h, "id") = id

\* h => h.id !== id
KeepOnRemove(h, id) == Get(h, "id") # id

RemoveThrows(prev) == ~IsArray(prev)

\* prev => prev.filter(h => h.id !== id)
RemoveUpdater(prev, id) ==
    ArrayOf(SelectSeq(prev.items, LAMBDA h : KeepOnRemove(h, id)))

\* What the add updater leaves in storage: localStorage.setItem(KEY, JSON.stringify(updated))
StoredByAdd(updated) == JSONstringify(updated)

StoredByRemoveStale(prev, updated) == JSONstringify(prev)

\* What the remove updater leaves in storage.
StoredByRemove(prev, updated) == JSONstringify(updated)

\* What clearHistory leaves in storage: localStorage.removeItem(KEY)
StoredByClear(st) == Absent

\* The mount effect: the value the instance holds afterwards.
HydratedValue(st, current) ==
    IF StoredTruthy(st)
    THEN IF JSONparse(st).threw THEN ArrayOf(<<>>) ELSE JSONparse(st).value
    ELSE current

HasQuestion(h, q) ==
    IsArray(h) /\ \E i \in 1..Len(h.items) :
        /\ IsString(Get(h.items[i], "question")) /\ IsString(q)
        /\ ToLowerCase(Get(h.items[i], "question").s) = ToLowerCase(q.s)

HasId(h, id) == \E i \in 1..Len(h.items) : Get(h.items[i], "id") = id

IdsOf(h) == {Get(h.items[i], "id") : i \in 1..Len(h.items)}

\* addToHistory(item) on instance inst; t1 and t2 are the two Date.now() reads.
AddToHistory(inst, item, t1, t2, handler, outcome) ==
    LET prev == history[inst]
        threw == AddThrows(prev, item)
        updated == AddUpdater(prev, item, NewItem(item, t1, nextRand, t2))
    IN  /\ clock' = t2
        /\ nextRand' = nextRand + 1
        /\ history' = IF threw THEN history ELSE [history EXCEPT ![inst] = updated]
        /\ storage' = IF threw THEN storage ELSE StoredByAdd(updated)
        /\ lastCall' = Call(handler, outcome, "add", inst, threw, item,
                            Get(item, "question"),
                            prev, HasQuestion(prev, Get(item, "question")))
        /\ UNCHANGED <<mounted, hydrated, removed>>

\* removeFromHistory(id) on instance inst
RemoveFromHistory(inst, id, handler) ==
    LET prev == history[inst]
        threw == RemoveThrows(prev)
        updated == RemoveUpdater(prev, id)
    IN  /\ history' = IF threw THEN history ELSE [history EXCEPT ![inst] = updated]
        /\ storage' = IF threw THEN storage ELSE StoredByRemove(prev, updated)
        /\ removed' = removed \cup {id}
        /\ lastCall' = Call(handler, "done", "remove", inst, threw, <<>>, id,
                            prev, HasId(prev, id))
        /\ UNCHANGED <<mounted, hydrated, clock, nextRand>>

\* clearHistory() on instance inst
ClearHistory(inst, handler) ==
    /\ history' = [history EXCEPT ![inst] = ArrayOf(<<>>)]
    /\ storage' = StoredByClear(storage)
    /\ removed' = removed \cup IdsOf(history[inst])
    /\ lastCall' = Call(handler, "done", "clear", inst, FALSE, <<>>, Undefined,
                        history[inst], Len(history[inst].items) > 0)
    /\ UNCHANGED <<mounted, hydrated, clock, nextRand>>

\* useEffect(() => { ... }, []) of instance inst
HydrateEffect(inst) ==
    /\ mounted[inst] /\ ~hydrated[inst]
    /\ hydrated' = [hydrated EXCEPT ![inst] = TRUE]
    /\ history' = [history EXCEPT ![inst] = HydratedValue(storage, history[inst])]
    /\ lastCall' = Call("effect", "done", "hydrate", inst, FALSE, <<>>, Undefined,
                        history[inst], StoredTruthy(storage))
    /\ UNCHANGED <<storage, mounted, clock, nextRand, removed>>

----------------------------------------------------------------------------
(* What a session can find in storage *)

\* Date.now() when the session starts: later than every stored timestamp.
SessionStart == MAX_HISTORY + 1

\* Date.now() read at time t: the clock may have advanced since.
Reads(t) == {t, t + 1}

\* The two Date.now() reads of one addToHistory call: the call is synchronous
\* and spans at most one tick of the millisecond clock.
ReadPairs(t) == {p \in Reads(t) \X Reads(t) : p[1] <= p[2]}

\* The item handleQuery passes to addToHistory.
PageItem(question, sql, tableName, rowCount, executionTime) ==
    << [k |-> "question", v |-> question],
       [k |-> "sql", v |-> sql],
       [k |-> "tableName", v |-> tableName],
       [k |-> "rowCount", v |-> rowCount],
       [k |-> "executionTime", v |-> executionTime] >>

\* An item of the declared type Omit<QueryHistoryItem, 'id' | 'timestamp'>.
TypedItem(question, rowCount, executionTime, confidence) ==
    << [k |-> "question", v |-> question],
       [k |-> "rowCount", v |-> rowCount],
       [k |-> "executionTime", v |-> executionTime],
       [k |-> "confidence", v |-> confidence] >>

\* The i-th entry, newest first, of a ledger an earlier session stored.
StoredEntry(i) ==
    NewItem(PageItem(Str(<<"q">> \o NumberToString(i)), Str(<<"s">>), Str(<<"t">>),
                     Num(i), Num(1)),
            SessionStart - i, i, SessionStart - i)

EarlierLedger(n) == ArrayOf([i \in 1..n |-> StoredEntry(i)])

\* Storage as this program leaves it: no key, or a ledger it wrote.
WellFormedStorage ==
    {Absent} \cup {JSONstringify(EarlierLedger(n)) : n \in {0, 2, MAX_HISTORY}}

\* Storage as anything may have left it.
AnyStorage ==
    WellFormedStorage \cup
    {EmptyText, GarbageText, JsonText(NonArray("object")), JsonText(NonArray("null")),
     JsonText(ArrayOf(<< <<[k |-> "a", v |-> Num(1)]>> >>))}

\* queryResult: null, or the data of the last successful /query response.
NoResult == [isNull |-> TRUE, data |-> <<>>]
ResultOf(data) == [isNull |-> FALSE, data |-> data]

\* useState initial values of Home and of the history panel
InitHome ==
    /\ tables = <<>>
    /\ selectedTable = Null
    /\ isLoading = FALSE
    /\ error = Null
    /\ queryResult = NoResult
    /\ showHistory = FALSE
    /\ isExpanded = FALSE
    /\ showAll = FALSE
    /\ pending = <<>>
    /\ crashed = FALSE

\* A run of checkBackendHealth: what started it, its fetch, its abort timer
HealthCheck(by, fetch, timer) == [by |-> by, fetch |-> fetch, timer |-> timer]

\* Home has mounted: its effect has registered the interval and started init(),
\* whose health check is in flight; no toast has been added.
InitServices ==
    /\ toasts = <<>>
    /\ toastTimers = {}
    /\ toastSeq = 0
    /\ homeMounted = TRUE
    /\ backendStatus = "connecting"
    /\ healthInterval = TRUE
    /\ healthChecks = <<HealthCheck("mount", "pending", "pending")>>

\* Nothing exported yet.
NoExport == [kind |-> "none", content |-> <<>>]

\* useState initial values of the components inside the results view
InitWidgets ==
    /\ exportButton = [isOpen |-> FALSE, copied |-> FALSE, timers |-> 0]
    /\ exported = NoExport
    /\ questionInput = <<>>
    /\ recentQueries = <<>>
    /\ suggestions = <<>>

\* No result set yet: the results view is not rendered.
InitView ==
    /\ InitWidgets
    /\ InitServices
    /\ dataRows = <<>>
    /\ columns = <<>>
    /\ sortColumn = Null
    /\ sortDirection = Null
    /\ page = 0
    /\ searchTerm = <<>>
    /\ engine = "laterFirst"
    /\ stats = <<>>

InitWith(storages) ==
    /\ storage \in storages
    /\ history = [i \in Instances |-> ArrayOf(<<>>)]
    /\ mounted = [i \in Instances |-> i = "page"]
    /\ hydrated = [i \in Instances |-> FALSE]
    /\ clock = SessionStart
    /\ nextRand = SessionStart
    /\ lastCall = NoCall
    /\ removed = {}
    /\ InitHome
    /\ InitView

----------------------------------------------------------------------------
(* The hook on its own: one instance driven through its returned functions *)

ApiItems ==
    {TypedItem(Str(q), Num(3), Num(12), Num(90)) : q \in {<<"A", "b">>}} \cup
    {PageItem(Str(q), Str(<<"s">>), Str(<<"t">>), Num(3), Num(12)) :
        q \in {<<"a", "B">>, <<"Q", "1">>}}

\* An id no entry carries.
StrangerId == IdOf(0, 0)

\* The ids tried: of the first and the last entry, the one removed just before
\* (the same removal asked twice), and a stranger.
RemoveCandidates(h) ==
    {StrangerId} \cup
    (IF lastCall.op = "remove" THEN {lastCall.arg} ELSE {}) \cup
    {Get(h.items[i], "id") : i \in {j \in {1, Len(h.items)} : j \in 1..Len(h.items)}}

ApiCallsLeft == hydrated["page"] /\ lastCall.n <= MaxApiCalls

LedgerHydrate ==
    /\ HydrateEffect("page") /\ UNCHANGED homeVars
    /\ UNCHANGED <<viewVars, widgetVars, serviceVars>>

LedgerAdd ==
    /\ ApiCallsLeft
    /\ \E item \in ApiItems : \E t \in ReadPairs(clock) :
          AddToHistory("page", item, t[1], t[2], "api", "done")
    /\ UNCHANGED homeVars
    /\ UNCHANGED <<viewVars, widgetVars, serviceVars>>

LedgerRemove ==
    /\ ApiCallsLeft
    /\ \E id \in RemoveCandidates(history["page"]) :
          IsString(id) /\ RemoveFromHistory("page", id, "api")
    /\ UNCHANGED homeVars
    /\ UNCHANGED <<viewVars, widgetVars, serviceVars>>

LedgerClear ==
    /\ ApiCallsLeft
    /\ ClearHistory("page", "api")
    /\ UNCHANGED homeVars
    /\ UNCHANGED <<viewVars, widgetVars, serviceVars>>

NextLedger == LedgerHydrate \/ LedgerAdd \/ LedgerRemove \/ LedgerClear

InitLedger == InitWith(WellFormedStorage)
InitAnyStorage == InitWith(AnyStorage)

SpecLedger == InitLedger /\ [][NextLedger]_vars
SpecLedgerAnyStorage == InitAnyStorage /\ [][NextLedger]_vars

----------------------------------------------------------------------------
(* The Home page and the history panel it mounts *)

\* Texts that no code of the model looks into are kept in one piece.
Message(text) == Str(<<text>>)

TableNames == {<<"t">>, <<"u">>}

\* EXAMPLE_QUERIES[0]
FirstExample ==
    <<"S", "h", "o", "w", " ", "t", "o", "t", "a", "l", " ", "s", "a", "l", "e", "s",
      " ", "b", "y", " ", "c", "a", "t", "e", "g", "o", "r", "y">>

\* What the user may have typed into the question input.
TypedTexts == {<<"A", "b">>, <<" ", "a", "B", " ">>, <<" ">>}

\* The body of a successful /query response; confidence is in hundredths.
ResponseData ==
    << [k |-> "sql", v |-> Str(<<"s">>)],
       [k |-> "row_count", v |-> Num(3)],
       [k |-> "execution_time_ms", v |-> Num(12)],
       [k |-> "confidence", v |-> Num(90)] >>

Outcomes == {"ok", "http_error", "network_error", "json_error"}

Fetch(url, question, table) == [url |-> url, question |-> question, table |-> table]

\* history.slice(0, 5): the entries the panel shows until "Show all" is chosen
SHOWN == 5

\* The state after Home has mounted and its mount effects have run: the hook
\* instance of the page has hydrated and init() has asked for the tables.
Init ==
    /\ storage \in {Absent, JSONstringify(EarlierLedger(SHOWN + 1))}
    /\ history = [i \in Instances |->
                    IF i = "page" THEN HydratedValue(storage, ArrayOf(<<>>))
                    ELSE ArrayOf(<<>>)]
    /\ mounted = [i \in Instances |-> i = "page"]
    /\ hydrated = [i \in Instances |-> i = "page"]
    /\ clock = SessionStart
    /\ nextRand = SessionStart
    /\ lastCall = NoCall
    /\ removed = {}
    /\ tables = <<>>
    /\ selectedTable = Null
    /\ isLoading = FALSE
    /\ error = Null
    /\ queryResult = NoResult
    /\ showHistory = FALSE
    /\ isExpanded = FALSE
    /\ showAll = FALSE
    /\ pending = <<Fetch("tables", Undefined, Undefined)>>
    /\ crashed = FALSE
    /\ InitView

UserCanAct == ~crashed /\ lastCall.n < MaxHomeCalls

NoHookCall(handler, outcome) ==
    Call(handler, outcome, "none", "none", FALSE, <<>>, Undefined, ArrayOf(<<>>), FALSE)

RejectsNothing(table) == FALSE

\* if (!selectedTable)
RejectsQuery(table) == ~Truthy(table)

\* handleQuery(question) up to its fetch: the early return, or the request.
HandleQuery(question, handler) ==
    IF RejectsQuery(selectedTable)
    THEN /\ error' = Message("Please upload data first")
         /\ lastCall' = NoHookCall(handler, "rejected")
         /\ UNCHANGED <<isLoading, pending>>
    ELSE /\ Len(pending) < MaxPending
         /\ isLoading' = TRUE
         /\ error' = Null
         /\ pending' = Append(pending, Fetch("query", question, selectedTable))
         /\ lastCall' = NoHookCall(handler, "sent")

\* QueryInterface.handleSubmit: the Analyze button or Enter
SubmitQuestion ==
    /\ UserCanAct /\ Len(tables) > 0
    /\ \E text \in TypedTexts :
          /\ Len(Trim(text)) > 0 /\ ~isLoading
          /\ HandleQuery(Str(Trim(text)), "submit")
    /\ UNCHANGED ledgerVars_but_lastCall
    /\ UNCHANGED <<tables, selectedTable, queryResult, showHistory, isExpanded, showAll,
                   crashed>>

\* handleSubmit, the results view left aside
Submit == SubmitQuestion /\ UNCHANGED <<viewVars, widgetVars, serviceVars>>

\* QueryInterface: an example button
Example ==
    /\ UserCanAct /\ Len(tables) > 0 /\ ~isLoading
    /\ HandleQuery(Str(FirstExample), "example")
    /\ UNCHANGED ledgerVars_but_lastCall
    /\ UNCHANGED <<tables, selectedTable, queryResult, showHistory, isExpanded, showAll,
                   crashed>>
    /\ UNCHANGED <<viewVars, widgetVars, serviceVars>>

\* The sequence s without its i-th element.
Drop(s, i) == SubSeq(s, 1, i - 1) \o SubSeq(s, i + 1, Len(s))

FailureMessage(outcome) ==
    CASE outcome = "http_error" -> Message("Query failed")
      [] outcome = "network_error" -> Message("Failed to fetch")
      [] OTHER -> Message("Unexpected token")

HistoryItemOfSql(question, table, data) ==
    PageItem(Get(data, "sql"), Get(data, "sql"), table, Get(data, "row_count"),
             Get(data, "execution_time_ms"))

\* The item handleQuery builds from the response and its own closure.
HistoryItemOf(question, table, data) ==
    PageItem(question, Get(data, "sql"), table, Get(data, "row_count"),
             Get(data, "execution_time_ms"))

\* handleQuery after its fetch settles
QuerySettles ==
    /\ ~crashed
    /\ \E i \in 1..Len(pending) : \E outcome \in Outcomes :
          /\ pending[i].url = "query"
          /\ pending' = Drop(pending, i)
          /\ IF outcome = "ok"
             THEN LET item == HistoryItemOf(pending[i].question, pending[i].table,
                                            ResponseData)
                  IN  /\ \E t \in ReadPairs(clock) :
                            AddToHistory("page", item, t[1], t[2], "queryResponse", "ok")
                      /\ crashed' = AddThrows(history["page"], item)
                      /\ queryResult' = ResultOf(ResponseData)
                      /\ isLoading' = FALSE
                      /\ UNCHANGED error
             ELSE /\ error' = FailureMessage(outcome)
                  /\ isLoading' = FALSE
                  /\ lastCall' = NoHookCall("queryResponse", outcome)
                  /\ UNCHANGED <<storage, history, mounted, hydrated, clock, nextRand,
                                 removed, queryResult, crashed>>
    /\ UNCHANGED <<tables, selectedTable, showHistory, isExpanded, showAll>>

\* The settled fetch of handleQuery, the results view left aside
QueryResponse == QuerySettles /\ UNCHANGED <<viewVars, widgetVars, serviceVars>>

\* init(): checkBackendHealth, then fetchTables
InitSettle ==
    /\ ~crashed
    /\ \E i \in 1..Len(pending) : \E ts \in {<<>>, << <<"t">> >>} : \E ok \in BOOLEAN :
          /\ pending[i].url = "tables"
          /\ pending' = Drop(pending, i)
          /\ tables' = IF ok THEN ts ELSE tables
          /\ selectedTable' = IF ok /\ Len(ts) > 0 THEN Str(ts[1]) ELSE selectedTable
          /\ lastCall' = NoHookCall("init", IF ok THEN "ok" ELSE "failed")
    /\ UNCHANGED ledgerVars_but_lastCall
    /\ UNCHANGED <<isLoading, error, queryResult, showHistory, isExpanded, showAll, crashed>>
    /\ UNCHANGED <<viewVars, widgetVars, serviceVars>>

\* handleUpload(file) up to its fetch
HandleUpload ==
    /\ UserCanAct /\ ~isLoading /\ Len(pending) < MaxPending
    /\ \E name \in TableNames :
          pending' = Append(pending, Fetch("upload", Undefined, Str(name)))
    /\ isLoading' = TRUE
    /\ error' = Null
    /\ lastCall' = NoHookCall("upload", "sent")
    /\ UNCHANGED ledgerVars_but_lastCall
    /\ UNCHANGED <<tables, selectedTable, queryResult, showHistory, isExpanded, showAll,
                   crashed>>
    /\ UNCHANGED <<viewVars, widgetVars, serviceVars>>

HasTable(name) == \E j \in 1..Len(tables) : tables[j] = name

\* handleUpload after its fetch settles: fetchTables, setSelectedTable
UploadSettle ==
    /\ ~crashed
    /\ \E i \in 1..Len(pending) : \E ok \in BOOLEAN :
          /\ pending[i].url = "upload"
          /\ pending' = Drop(pending, i)
          /\ tables' = IF ok /\ ~HasTable(pending[i].table.s)
                       THEN Append(tables, pending[i].table.s) ELSE tables
          /\ selectedTable' = IF ok THEN pending[i].table ELSE selectedTable
          /\ error' = IF ok THEN error ELSE Message("Upload failed")
          /\ isLoading' = FALSE
          /\ lastCall' = NoHookCall("uploadResponse", IF ok THEN "ok" ELSE "failed")
    /\ UNCHANGED ledgerVars_but_lastCall
    /\ UNCHANGED <<queryResult, showHistory, isExpanded, showAll, crashed>>
    /\ UNCHANGED <<viewVars, widgetVars, serviceVars>>

\* SchemaPanel.onSelectTable
SelectTable ==
    /\ UserCanAct /\ Len(tables) > 0
    /\ \E j \in 1..Len(tables) : selectedTable' = Str(tables[j])
    /\ selectedTable' # selectedTable
    /\ lastCall' = NoHookCall("selectTable", "done")
    /\ UNCHANGED ledgerVars_but_lastCall
    /\ UNCHANGED <<tables, isLoading, error, queryResult, showHistory, isExpanded, showAll,
                   pending, crashed>>
    /\ UNCHANGED <<viewVars, widgetVars, serviceVars>>

PanelShows == showHistory /\ Len(history["panel"].items) > 0

\* displayedHistory
DisplayedHistory ==
    IF showAll THEN history["panel"].items ELSE Slice(history["panel"].items, SHOWN)

\* The History button of the header: the panel mounts, and its instance of
\* useQueryHistory starts from [] and runs its mount effect.
OpenHistory ==
    /\ UserCanAct /\ ~showHistory /\ Len(history["page"].items) > 0
    /\ showHistory' = TRUE
    /\ mounted' = [mounted EXCEPT !["panel"] = TRUE]
    /\ hydrated' = [hydrated EXCEPT !["panel"] = TRUE]
    /\ history' = [history EXCEPT !["panel"] = HydratedValue(storage, ArrayOf(<<>>))]
    /\ isExpanded' = FALSE
    /\ showAll' = FALSE
    /\ lastCall' = Call("openHistory", "done", "hydrate", "panel", FALSE, <<>>, Undefined,
                        ArrayOf(<<>>), StoredTruthy(storage))
    /\ UNCHANGED <<storage, clock, nextRand, removed>>
    /\ UNCHANGED <<tables, selectedTable, isLoading, error, queryResult, pending, crashed>>
    /\ UNCHANGED <<viewVars, widgetVars, serviceVars>>

\* The panel unmounts and its state is gone.
PanelUnmounts ==
    /\ showHistory' = FALSE
    /\ mounted' = [mounted EXCEPT !["panel"] = FALSE]
    /\ hydrated' = [hydrated EXCEPT !["panel"] = FALSE]
    /\ history' = [history EXCEPT !["panel"] = ArrayOf(<<>>)]
    /\ isExpanded' = FALSE
    /\ showAll' = FALSE

\* The backdrop or the X of the slide-over
CloseHistory ==
    /\ UserCanAct /\ showHistory
    /\ PanelUnmounts
    /\ lastCall' = NoHookCall("closeHistory", "done")
    /\ UNCHANGED <<storage, clock, nextRand, removed>>
    /\ UNCHANGED <<tables, selectedTable, isLoading, error, queryResult, pending, crashed>>
    /\ UNCHANGED <<viewVars, widgetVars, serviceVars>>

\* The header of the panel
ToggleExpanded ==
    /\ UserCanAct /\ PanelShows
    /\ isExpanded' = ~isExpanded
    /\ lastCall' = NoHookCall("toggleExpanded", "done")
    /\ UNCHANGED ledgerVars_but_lastCall
    /\ UNCHANGED <<tables, selectedTable, isLoading, error, queryResult, showHistory, showAll,
                   pending, crashed>>
    /\ UNCHANGED <<viewVars, widgetVars, serviceVars>>

\* "Show all" / "Show less"
ToggleShowAll ==
    /\ UserCanAct /\ PanelShows /\ isExpanded /\ Len(history["panel"].items) > SHOWN
    /\ showAll' = ~showAll
    /\ lastCall' = NoHookCall("toggleShowAll", "done")
    /\ UNCHANGED ledgerVars_but_lastCall
    /\ UNCHANGED <<tables, selectedTable, isLoading, error, queryResult, showHistory,
                   isExpanded, pending, crashed>>
    /\ UNCHANGED <<viewVars, widgetVars, serviceVars>>

\* The replay button of a shown entry: onReplay(item.question), which Home
\* receives as (query) => { handleQuery(query.question); setShowHistory(false) }
ReplayQuestion ==
    /\ UserCanAct /\ PanelShows /\ isExpanded
    /\ \E i \in 1..Len(DisplayedHistory) :
          HandleQuery(PropertyOfString(Get(DisplayedHistory[i], "question"), "question"),
                      "replay")
    /\ PanelUnmounts
    /\ UNCHANGED <<storage, clock, nextRand, removed>>
    /\ UNCHANGED <<tables, selectedTable, queryResult, crashed>>

\* onReplay, the results view left aside
Replay == ReplayQuestion /\ UNCHANGED <<viewVars, widgetVars, serviceVars>>

\* The X of a shown entry
PanelRemove ==
    /\ UserCanAct /\ PanelShows /\ isExpanded
    /\ \E i \in 1..Len(DisplayedHistory) :
          RemoveFromHistory("panel", Get(DisplayedHistory[i], "id"), "panelRemove")
    /\ UNCHANGED homeVars
    /\ UNCHANGED <<viewVars, widgetVars, serviceVars>>

\* "Clear history"
PanelClear ==
    /\ UserCanAct /\ PanelShows /\ isExpanded
    /\ ClearHistory("panel", "panelClear")
    /\ UNCHANGED homeVars
    /\ UNCHANGED <<viewVars, widgetVars, serviceVars>>

Next ==
    \/ Submit \/ Example \/ QueryResponse
    \/ InitSettle \/ HandleUpload \/ UploadSettle \/ SelectTable
    \/ OpenHistory \/ CloseHistory \/ ToggleExpanded \/ ToggleShowAll
    \/ Replay \/ PanelRemove \/ PanelClear

Spec == Init /\ [][Next]_vars

----------------------------------------------------------------------------
(* The results view: DataTable *)

pageSize == 25

MaxPages == 3       \* pages of the largest result set

\* val != null; aVal === null || aVal === undefined
IsNullish(v) == v.ty \in {"null", "undefined"}

\* String(val) of a number or of a string
StringOf(v) ==
    IF v.ty = "number"
    THEN IF v.n < 0 THEN <<"-">> \o NumberToString(-v.n) ELSE NumberToString(v.n)
    ELSE v.s

\* String.prototype.includes
Includes(s, t) == \E i \in 0..(Len(s) - Len(t)) : SubSeq(s, i + 1, i + Len(t)) = t

Column(name, type) == [name |-> name, type |-> type]

\* row => columns.some(col => val != null && String(val).toLowerCase().includes(term))
RowMatches(row, cols, term) ==
    \E c \in 1..Len(cols) :
        LET val == Get(row, cols[c].name)
        IN  ~IsNullish(val) /\ Includes(ToLowerCase(StringOf(val)), term)

\* The body of the filteredData memo
FilterRows(rows, cols, search) ==
    IF Len(Trim(search)) = 0 THEN rows
    ELSE SelectSeq(rows, LAMBDA row : RowMatches(row, cols, ToLowerCase(search)))

\* The order localeCompare gives the characters of the model: white space,
\* punctuation, digits, letters.
Collation ==
    <<"\n", " ", "-", ",", "\"", "0", "1", "2", "3", "4", "5", "6", "7", "8", "9",
      "a", "b", "c", "i", "n", "q", "s", "t", "x", "y">>

\* The place of each character in the collation
RankOf ==
    [c \in {Collation[i] : i \in 1..Len(Collation)} |->
        CHOOSE i \in 1..Len(Collation) : Collation[i] = c]

CharRank(c) == RankOf[c]

RECURSIVE LexCompare(_, _)
LexCompare(a, b) ==
    IF a = <<>> THEN (IF b = <<>> THEN 0 ELSE -1)
    ELSE IF b = <<>> THEN 1
    ELSE IF CharRank(a[1]) < CharRank(b[1]) THEN -1
    ELSE IF CharRank(a[1]) > CharRank(b[1]) THEN 1
    ELSE LexCompare(Tail(a), Tail(b))

\* Texts that differ in case only: at the first difference lower case goes first.
CaseCompare(a, b) ==
    IF a = b THEN 0
    ELSE LET i == CHOOSE j \in 1..Len(a) : a[j] # b[j] /\ \A k \in 1..(j - 1) : a[k] = b[k]
         IN  IF a[i] = LowerChar(a[i]) THEN -1 ELSE 1

\* String.prototype.localeCompare
LocaleCompare(a, b) ==
    IF LexCompare(ToLowerCase(a), ToLowerCase(b)) # 0
    THEN LexCompare(ToLowerCase(a), ToLowerCase(b))
    ELSE CaseCompare(a, b)

Asc == Message("asc")
Desc == Message("desc")

NullsFollowDirection(aVal, bVal, dir) ==
    IF IsNullish(aVal) /\ IsNullish(bVal) THEN 0
    ELSE IF IsNullish(aVal) THEN (IF dir = Asc THEN 1 ELSE -1)
    ELSE IF IsNullish(bVal) THEN (IF dir = Asc THEN -1 ELSE 1)
    ELSE 0

\* The two early returns of the comparator; 0 stands for "neither returned".
NullsLast(aVal, bVal, dir) ==
    IF IsNullish(aVal) THEN 1
    ELSE IF IsNullish(bVal) THEN -1
    ELSE 0

\* The comparator handed to sort
CompareRows(a, b, col, dir) ==
    LET aVal == Get(a, col)
        bVal == Get(b, col)
    IN  IF IsNullish(aVal) \/ IsNullish(bVal) THEN NullsLast(aVal, bVal, dir)
        ELSE IF aVal.ty = "number" /\ bVal.ty = "number"
        THEN IF dir = Asc THEN aVal.n - bVal.n ELSE bVal.n - aVal.n
        ELSE IF dir = Asc THEN LocaleCompare(StringOf(aVal), StringOf(bVal))
        ELSE LocaleCompare(StringOf(bVal), StringOf(aVal))

\* Array.prototype.sort is a stable sort. Engines differ in which of the two
\* elements they pass first to the comparator: the later one of the array
\* (a result < 0 moves it ahead of the earlier one) or the earlier one (a
\* result > 0 moves the later one ahead of it). For a consistent comparator
\* both give one result.
Engines == {"laterFirst", "earlierFirst"}

\* The later element stays behind the earlier one.
StaysBehind(later, earlier, col, dir, eng) ==
    IF eng = "laterFirst" THEN CompareRows(later, earlier, col, dir) >= 0
    ELSE CompareRows(earlier, later, col, dir) <= 0

\* Element j of arr comes before element i in the sorted array.
Precedes(arr, j, i, col, dir, eng) ==
    IF j < i THEN StaysBehind(arr[i], arr[j], col, dir, eng)
    ELSE ~StaysBehind(arr[j], arr[i], col, dir, eng)

\* The array with the elements of the function f.
ArrayFrom(f) == <<>> \o f

\* [...arr].sort(comparator): a new array, in which each element stands
\* after the elements that come before it; arr is not written to.
ArraySort(arr, col, dir, eng) ==
    LET n == Len(arr)
        place == ArrayFrom([i \in 1..n |->
                    1 + Cardinality({j \in 1..n : j # i /\ Precedes(arr, j, i, col, dir, eng)})])
    IN  ArrayFrom([r \in 1..n |-> arr[CHOOSE i \in 1..n : place[i] = r]])

\* The body of the sortedData memo
SortRows(rows, col, dir, eng) ==
    IF ~Truthy(col) \/ ~Truthy(dir) THEN rows
    ELSE ArraySort(rows, col.s[1], dir, eng)

\* Array.prototype.slice(start, end) for 0 <= start <= end
SliceRange(s, start, end) == SubSeq(s, start + 1, Min(end, Len(s)))

\* The body of the paginatedData memo
PageOf(rows, p) == SliceRange(rows, p * pageSize, p * pageSize + pageSize)

Floor(n, d) == n \div d

\* Math.ceil(n / d)
Ceil(n, d) == (n + d - 1) \div d

filteredData == FilterRows(dataRows, columns, searchTerm)
sortedData == SortRows(filteredData, sortColumn, sortDirection, engine)
paginatedData == PageOf(sortedData, page)
totalPages == Ceil(Len(filteredData), pageSize)

\* A handler of the results view ran: no hook function was called.
ViewCall(handler, arg) ==
    [NoCall EXCEPT !.handler = handler, !.arg = arg, !.n = lastCall.n]

SortAlwaysAsc(colName) == <<colName, Asc>>

\* The state handleSort(colName) leaves in <<sortColumn, sortDirection>>
SortAfter(colName) ==
    IF sortColumn = colName
    THEN IF sortDirection = Asc THEN <<sortColumn, Desc>>
         ELSE IF sortDirection = Desc THEN <<Null, Null>>
         ELSE <<sortColumn, sortDirection>>
    ELSE <<colName, Asc>>

ViewFrame ==
    UNCHANGED <<ledgerVars_but_lastCall, homeVars, dataRows, columns, engine, stats, widgetVars,
                serviceVars>>

\* handleSort(colName): a click on a column header
HandleSort ==
    /\ \E c \in 1..Len(columns) :
          /\ sortColumn' = SortAfter(Message(columns[c].name))[1]
          /\ sortDirection' = SortAfter(Message(columns[c].name))[2]
          /\ lastCall' = ViewCall("handleSort", Message(columns[c].name))
    /\ UNCHANGED <<page, searchTerm>>
    /\ ViewFrame

\* What the user may type into the filter input.
SearchTerms == {<<>>, <<" ">>, <<"A">>, <<"b", " ">>, <<"2">>}

\* onChange of the filter input
SearchChange ==
    /\ \E term \in SearchTerms :
          /\ term # searchTerm
          /\ searchTerm' = term
          /\ lastCall' = ViewCall("searchChange", Str(term))
    /\ page' = 0
    /\ UNCHANGED <<sortColumn, sortDirection>>
    /\ ViewFrame

\* The clear button of the filter input, shown when searchTerm is truthy
SearchClear ==
    /\ Truthy(Str(searchTerm))
    /\ searchTerm' = <<>>
    /\ lastCall' = ViewCall("searchClear", Undefined)
    /\ UNCHANGED <<page, sortColumn, sortDirection>>
    /\ ViewFrame

Max(a, b) == IF a > b THEN a ELSE b

\* Previous: setPage(p => Math.max(0, p - 1))
PreviousPage ==
    /\ totalPages > 1 /\ page # 0
    /\ page' = Max(0, page - 1)
    /\ lastCall' = ViewCall("previousPage", Undefined)
    /\ UNCHANGED <<searchTerm, sortColumn, sortDirection>>
    /\ ViewFrame

\* Next: setPage(p => Math.min(totalPages - 1, p + 1))
NextPage ==
    /\ totalPages > 1 /\ ~(page >= totalPages - 1)
    /\ page' = Min(totalPages - 1, page + 1)
    /\ lastCall' = ViewCall("nextPage", Undefined)
    /\ UNCHANGED <<searchTerm, sortColumn, sortDirection>>
    /\ ViewFrame

(* Result sets *)

\* A row as JSON delivers it: a key whose value is undefined is not there.
Row(id, v, name) ==
    StringifyObject(<< [k |-> "id", v |-> id], [k |-> "v", v |-> v],
                       [k |-> "name", v |-> name] >>)

\* The values 5, null, 3
FewRows ==
    << Row(Num(1), Num(5), Str(<<"A", "b">>)),
       Row(Num(2), Null, Str(<<"b", " ", "a">>)),
       Row(Num(3), Num(3), Null) >>

\* Equal values, and several rows without a value
TiedRows ==
    << Row(Num(1), Null, Str(<<"b">>)),
       Row(Num(2), Num(2), Str(<<"a", "b">>)),
       Row(Num(3), Undefined, Str(<<"A", "b">>)),
       Row(Num(4), Num(2), Null),
       Row(Num(5), Num(1), Str(<<"a", "b">>)),
       Row(Num(6), Str(<<"1", "0">>), Undefined),
       Row(Num(7), Null, Str(<<"c">>)) >>

\* n rows: values repeat with period 3, one name in four differs
ManyRows(n) ==
    [i \in 1..n |->
        Row(Num(i), Num(i % 3), Str(IF i % 4 = 0 THEN <<"b", "x">> ELSE <<"a">>))]

AllColumns ==
    <<Column("id", "measure"), Column("v", "measure"), Column("name", "dimension")>>

ResultSet(rows, cols) == [data |-> rows, columns |-> cols]

ResultSets ==
    {ResultSet(rows, cols) :
        rows \in {FewRows, TiedRows},
        cols \in {AllColumns, <<Column("v", "measure")>>, <<>>}} \cup
    {ResultSet(ManyRows(n), AllColumns) :
        n \in {0, pageSize, pageSize + 1, (MaxPages - 1) * pageSize + 1}}

\* No stored ledger and nothing in flight: the page itself is at rest.
InitAtRest ==
    /\ storage = Absent
    /\ history = [i \in Instances |-> ArrayOf(<<>>)]
    /\ mounted = [i \in Instances |-> i = "page"]
    /\ hydrated = [i \in Instances |-> i = "page"]
    /\ clock = SessionStart
    /\ nextRand = SessionStart
    /\ lastCall = NoCall
    /\ removed = {}
    /\ InitHome
    /\ InitServices

\* useState initial values of DataTable, for some result set
InitTable ==
    /\ InitAtRest
    /\ InitWidgets
    /\ \E r \in ResultSets : dataRows = r.data /\ columns = r.columns
    /\ sortColumn = Null
    /\ sortDirection = Null
    /\ page = 0
    /\ searchTerm = <<>>
    /\ engine \in Engines
    /\ stats = <<>>

NextTable == HandleSort \/ SearchChange \/ SearchClear \/ PreviousPage \/ NextPage

SpecTable == InitTable /\ [][NextTable]_vars

----------------------------------------------------------------------------
(* The results view: SummaryStats *)

MaxRows == 3        \* rows of a result set handed to SummaryStats

\* A number that is the quotient of two integers, den > 0.
Ratio(num, den) == [num |-> num, den |-> den]

Abs(n) == IF n < 0 THEN -n ELSE n

Pow10(d) == CASE d = 0 -> 1 [] d = 1 -> 10 [] d = 2 -> 100 [] OTHER -> 1000

\* The integer nearest to n / d for n >= 0, the larger one of two.
Rounded(n, d) == (2 * n + d) \div (2 * d)

\* The d decimal digits of n, leading zeros included.
Digits(n, d) == [i \in 1..d |-> DigitChars[((n \div Pow10(d - i)) % 10) + 1]]

\* Number.prototype.toFixed(d), d >= 1. The inputs of the model have no value
\* half way between two results, where the binary fraction would decide.
ToFixed(x, d) ==
    LET scaled == Rounded(Abs(x.num) * Pow10(d), x.den)
    IN  (IF x.num < 0 THEN <<"-">> ELSE <<>>)
        \o NumberToString(scaled \div Pow10(d)) \o <<".">> \o Digits(scaled % Pow10(d), d)

\* toLocaleString(undefined, { maximumFractionDigits: 2 }) of a number below
\* 1000 in absolute value, where no grouping applies, with "." as the decimal
\* separator: at most two fraction digits, trailing zeros dropped.
ToLocaleString(x) ==
    LET scaled == Rounded(Abs(x.num) * 100, x.den)
        cents == scaled % 100
    IN  (IF x.num < 0 THEN <<"-">> ELSE <<>>)
        \o NumberToString(scaled \div 100)
        \o (IF cents = 0 THEN <<>>
            ELSE IF cents % 10 = 0 THEN <<".", DigitChars[(cents \div 10) + 1]>>
            ELSE <<".">> \o Digits(cents, 2))

\* formatNumber(value)
formatNumber(x) ==
    IF Abs(x.num) >= 1000000 * x.den
    THEN ToFixed(Ratio(x.num, x.den * 1000000), 1) \o <<"M">>
    ELSE IF Abs(x.num) >= 1000 * x.den
    THEN ToFixed(Ratio(x.num, x.den * 1000), 1) \o <<"K">>
    ELSE IF Abs(x.num) < x.den /\ x.num # 0
    THEN ToFixed(x, 3)
    ELSE ToLocaleString(x)

IsNumberOrNull(v) == v.ty \in {"number", "null"}

\* typeof v === 'number'
IsNumber(v) == v.ty = "number"

\* columns.filter(c => c.type === 'measure')
MeasureCols(cols) == SelectSeq(cols, LAMBDA c : c.type = "measure")

\* data.map(r => r[col.name]).filter(v => typeof v === 'number')
NumbersOf(rows, name) ==
    SelectSeq([i \in 1..Len(rows) |-> Get(rows[i], name)], LAMBDA v : IsNumber(v))

\* values.reduce((a, b) => a + b, 0)
RECURSIVE Sum(_)
Sum(values) == IF values = <<>> THEN 0 ELSE Sum(SubSeq(values, 1, Len(values) - 1)) + values[Len(values)].n

\* Math.min(...values), Math.max(...values)
MinOf(values) == CHOOSE n \in {values[i].n : i \in 1..Len(values)} :
                    \A i \in 1..Len(values) : n <= values[i].n
MaxOf(values) == CHOOSE n \in {values[i].n : i \in 1..Len(values)} :
                    \A i \in 1..Len(values) : n >= values[i].n

\* A StatCard. The label is kept as its fixed text and the column it names
\* (formatLabel only re-spells the column name); the icon follows the label.
StatCard(label, column, value, subValue, trend, color) ==
    [label |-> label, column |-> column, value |-> value, subValue |-> subValue,
     trend |-> trend, color |-> color]

Text(chars) == Str(chars)

\* The "Total Rows" card; data.length.toLocaleString() for a length below 1000
RowCountCard(rows) ==
    StatCard("Total Rows", "", Text(NumberToString(Len(rows))), Undefined, Undefined, "blue")

\* The card of the first measure: sum, and average as sub-value
TotalCard(col, values) ==
    StatCard("Total", col.name, Text(formatNumber(Ratio(Sum(values), 1))),
             Text(<<"A", "v", "g", ":", " ">> \o formatNumber(Ratio(Sum(values), Len(values)))),
             Undefined, "green")

\* The card of the second measure: average, and range as sub-value
AvgCard(col, values) ==
    StatCard("Avg", col.name, Text(formatNumber(Ratio(Sum(values), Len(values)))),
             Text(formatNumber(Ratio(MinOf(values), 1)) \o <<" ", "-", " ">>
                  \o formatNumber(Ratio(MaxOf(values), 1))),
             Undefined, "purple")

TrendAlwaysUp(change) == "up"

\* change >= 0 ? 'up' : 'down'
TrendOf(change) == IF change.num >= 0 THEN "up" ELSE "down"

\* ((last - first) / Math.abs(first)) * 100
ChangeOf(first, last) == Ratio((last.n - first.n) * 100, Abs(first.n))

\* The "Change" card
ChangeCard(first, last) ==
    LET change == ChangeOf(first, last)
    IN  StatCard("Change", "",
                 Text((IF change.num >= 0 THEN <<"+">> ELSE <<>>) \o ToFixed(change, 1)
                      \o <<"%">>),
                 Text(formatNumber(Ratio(first.n, 1)) \o <<" ", "->", " ">>
                      \o formatNumber(Ratio(last.n, 1))),
                 TrendOf(change),
                 IF change.num >= 0 THEN "green" ELSE "red")

ReturnsEmptyOnNoColumns(rows, cols) == Len(cols) = 0

\* if (!data.length || !columns.length) return []
ReturnsEmpty(rows, cols) == Len(rows) = 0 \/ Len(cols) = 0

\* The body of the stats memo
Cards(rows, cols) ==
    IF ReturnsEmpty(rows, cols) THEN <<>>
    ELSE
    LET measureCols == MeasureCols(cols)
        values0 == NumbersOf(rows, measureCols[1].name)
        values1 == NumbersOf(rows, measureCols[2].name)
        first == Get(rows[1], measureCols[1].name)
        last == Get(rows[Len(rows)], measureCols[1].name)
    IN  Slice(<<RowCountCard(rows)>>
              \o (IF Len(measureCols) >= 1 /\ Len(values0) > 0
                  THEN <<TotalCard(measureCols[1], values0)>> ELSE <<>>)
              \o (IF Len(measureCols) >= 2 /\ Len(values1) > 0
                  THEN <<AvgCard(measureCols[2], values1)>> ELSE <<>>)
              \o (IF /\ Len(measureCols) >= 1 /\ Len(rows) >= 2
                     /\ IsNumber(first) /\ IsNumber(last) /\ first.n # 0
                  THEN <<ChangeCard(first, last)>> ELSE <<>>),
              4)

\* SummaryStats renders: the memo is computed from the props.
RenderStats ==
    /\ lastCall.handler # "renderStats"
    /\ stats' = Cards(dataRows, columns)
    /\ lastCall' = ViewCall("renderStats", Undefined)
    /\ UNCHANGED <<ledgerVars_but_lastCall, homeVars>>
    /\ UNCHANGED <<dataRows, columns, sortColumn, sortDirection, page, searchTerm, engine>>
    /\ UNCHANGED <<widgetVars, serviceVars>>

(* Result sets handed to SummaryStats *)

\* Values of the column revenue
Revenues ==
    {Num(100), Num(200), Num(300), Num(0), Num(-100), Num(1500), Null,
     Str(<<"1", "0", "0">>)}

RECURSIVE SeqsUpTo(_, _)
SeqsUpTo(S, n) ==
    IF n = 0 THEN {<<>>}
    ELSE SeqsUpTo(S, n - 1) \cup
         {Append(s, x) : s \in {t \in SeqsUpTo(S, n - 1) : Len(t) = n - 1}, x \in S}

\* A row with the given revenue; its units follow from its place, the
\* second row has none.
StatsRow(i, revenue) ==
    StringifyObject(<< [k |-> "region", v |-> Str(<<"a">>)],
                       [k |-> "revenue", v |-> revenue],
                       [k |-> "units", v |-> IF i = 2 THEN Null ELSE Num(i * 10)] >>)

StatsData ==
    {[i \in 1..Len(rs) |-> StatsRow(i, rs[i])] : rs \in SeqsUpTo(Revenues, MaxRows)}

StatsColumns ==
    { <<>>,
      <<Column("region", "dimension")>>,
      <<Column("revenue", "measure")>>,
      <<Column("region", "dimension"), Column("revenue", "measure"), Column("units", "measure")>>,
      <<Column("units", "measure"), Column("revenue", "measure")>> }

InitStats ==
    /\ InitAtRest
    /\ InitWidgets
    /\ dataRows \in StatsData
    /\ columns \in StatsColumns
    /\ sortColumn = Null
    /\ sortDirection = Null
    /\ page = 0
    /\ searchTerm = <<>>
    /\ engine = "laterFirst"
    /\ stats = <<>>

NextStats == RenderStats

SpecStats == InitStats /\ [][NextStats]_vars

----------------------------------------------------------------------------
(* ExportButton (components/ExportButton.tsx), mounted by DataTable with
   data={filteredData} *)

MaxCopyTimers == 1      \* setCopied(false) timers pending at once

\* The characters of a column name.
Chars(name) == IF name = "a,b" THEN <<"a", ",", "b">> ELSE <<name>>

\* Array.prototype.join of texts
RECURSIVE Join(_, _)
Join(parts, sep) ==
    IF Len(parts) = 0 THEN <<>>
    ELSE IF Len(parts) = 1 THEN parts[1]
    ELSE LET half == Len(parts) \div 2
         IN  Join(SubSeq(parts, 1, half), sep) \o sep
             \o Join(SubSeq(parts, half + 1, Len(parts)), sep)

\* val.replace(/"/g, '""')
RECURSIVE DoubleQuotes(_)
DoubleQuotes(s) ==
    IF Len(s) = 0 THEN <<>>
    ELSE (IF Head(s) = "\"" THEN <<"\"", "\"">> ELSE <<Head(s)>>) \o DoubleQuotes(Tail(s))

\* val.includes(',') || val.includes('"') || val.includes('\n')
NeedsQuotes(s) == Includes(s, <<",">>) \/ Includes(s, <<"\"">>) \/ Includes(s, <<"\n">>)

\* One field of a CSV row
CsvField(val) ==
    IF IsNullish(val) THEN <<>>
    ELSE IF IsString(val) /\ NeedsQuotes(val.s)
         THEN <<"\"">> \o DoubleQuotes(val.s) \o <<"\"">>
         ELSE StringOf(val)

headers(cols) == [c \in 1..Len(cols) |-> cols[c].name]

\* csvContent of exportCSV
CsvContent(rows, cols) ==
    Join(<<Join([c \in 1..Len(cols) |-> Chars(cols[c].name)], <<",">>)>>
         \o [r \in 1..Len(rows) |->
                Join([c \in 1..Len(cols) |-> CsvField(Get(rows[r], headers(cols)[c]))],
                     <<",">>)],
         <<"\n">>)

\* tsvContent of copyToClipboard: row[h] ?? '' and join's own string form
TsvContent(rows, cols) ==
    Join(<<Join([c \in 1..Len(cols) |-> Chars(cols[c].name)], <<"\t">>)>>
         \o [r \in 1..Len(rows) |->
                Join([c \in 1..Len(cols) |->
                         LET val == Get(rows[r], headers(cols)[c])
                         IN  IF IsNullish(val) THEN <<>> ELSE StringOf(val)],
                     <<"\t">>)],
         <<"\n">>)

\* JSON.stringify of a string: quoted, with ", \ and line feed escaped
RECURSIVE Escaped(_)
Escaped(s) ==
    IF Len(s) = 0 THEN <<>>
    ELSE (CASE Head(s) = "\"" -> <<"\\", "\"">>
            [] Head(s) = "\\" -> <<"\\", "\\">>
            [] Head(s) = "\n" -> <<"\\", "n">>
            [] OTHER -> <<Head(s)>>) \o Escaped(Tail(s))

Quoted(s) == <<"\"">> \o Escaped(s) \o <<"\"">>

\* JSON.stringify of a property value
JsonValue(val) ==
    IF val.ty = "null" THEN <<"n", "u", "l", "l">>
    ELSE IF IsString(val) THEN Quoted(val.s)
    ELSE StringOf(val)

\* JSON.stringify(row, null, 2) at nesting depth 1: every own property
JsonObject(row) ==
    LET props == StringifyObject(row)
    IN  IF Len(props) = 0 THEN <<"{", "}">>
        ELSE <<"{", "\n">>
             \o Join([i \in 1..Len(props) |->
                         <<" ", " ", " ", " ">> \o Quoted(Chars(props[i].k))
                         \o <<":", " ">> \o JsonValue(props[i].v)],
                     <<",", "\n">>)
             \o <<"\n", " ", " ", "}">>

\* jsonContent of exportJSON: JSON.stringify(data, null, 2)
JsonContent(rows) ==
    IF Len(rows) = 0 THEN <<"[", "]">>
    ELSE <<"[", "\n">>
         \o Join([r \in 1..Len(rows) |-> <<" ", " ">> \o JsonObject(rows[r])], <<",", "\n">>)
         \o <<"\n", "]">>

ExportDataOfPage == paginatedData

\* <ExportButton data={filteredData} ... />
ExportData == filteredData

\* if (!data.length) return null: the button is rendered
ExportOffered == Len(ExportData) # 0

Export(kind, content) == [kind |-> kind, content |-> content]

ExportCall(handler, outcome) == [NoCall EXCEPT !.handler = handler, !.outcome = outcome]

ExportFrame ==
    UNCHANGED <<ledgerVars_but_lastCall, homeVars, viewVars, questionInput, recentQueries, suggestions,
                serviceVars>>

\* onClick of the Export button: setIsOpen(!isOpen)
ToggleExport ==
    /\ ExportOffered
    /\ exportButton' = [exportButton EXCEPT !.isOpen = ~exportButton.isOpen]
    /\ lastCall' = ExportCall("toggleExport", "done")
    /\ UNCHANGED exported
    /\ ExportFrame

\* handleClickOutside: a mousedown outside the rendered dropdown
ClickOutside ==
    /\ ExportOffered /\ exportButton.isOpen
    /\ exportButton' = [exportButton EXCEPT !.isOpen = FALSE]
    /\ lastCall' = ExportCall("handleClickOutside", "done")
    /\ UNCHANGED exported
    /\ ExportFrame

\* exportCSV
ExportCSV ==
    /\ ExportOffered /\ exportButton.isOpen
    /\ exported' = Export("csv", CsvContent(ExportData, columns))
    /\ exportButton' = [exportButton EXCEPT !.isOpen = FALSE]
    /\ lastCall' = ExportCall("exportCSV", "done")
    /\ ExportFrame

\* exportJSON
ExportJSON ==
    /\ ExportOffered /\ exportButton.isOpen
    /\ exported' = Export("json", JsonContent(ExportData))
    /\ exportButton' = [exportButton EXCEPT !.isOpen = FALSE]
    /\ lastCall' = ExportCall("exportJSON", "done")
    /\ ExportFrame

\* copyToClipboard: writeText resolves, or rejects and the catch logs it
CopyToClipboard ==
    /\ ExportOffered /\ exportButton.isOpen
    /\ \/ /\ exportButton.timers < MaxCopyTimers
          /\ exported' = Export("tsv", TsvContent(ExportData, columns))
          /\ exportButton' = [isOpen |-> FALSE, copied |-> TRUE,
                              timers |-> exportButton.timers + 1]
          /\ lastCall' = ExportCall("copyToClipboard", "done")
       \/ /\ exportButton' = [exportButton EXCEPT !.isOpen = FALSE]
          /\ lastCall' = ExportCall("copyToClipboard", "rejected")
          /\ UNCHANGED exported
    /\ ExportFrame

\* setTimeout(() => setCopied(false), 2000) fires
CopiedTimeout ==
    /\ exportButton.timers > 0
    /\ exportButton' = [exportButton EXCEPT !.copied = FALSE, !.timers = @ - 1]
    /\ lastCall' = ExportCall("copiedTimeout", "done")
    /\ UNCHANGED exported
    /\ ExportFrame

(* The table DataTable renders *)

\* formatValue(value, type); the placeholder glyph is kept in one piece
formatValue(value, type) ==
    IF IsNullish(value) THEN <<"em dash">>
    ELSE IF type = "measure" /\ value.ty = "number" THEN ToLocaleString(Ratio(value.n, 1))
    ELSE StringOf(value)

\* <th> per column
TableHeaders == [c \in 1..Len(columns) |-> Chars(columns[c].name)]

\* <td> per row of the page and column
TableCells ==
    [r \in 1..Len(paginatedData) |->
        [c \in 1..Len(columns) |->
            formatValue(Get(paginatedData[r], columns[c].name), columns[c].type)]]

(* Result sets to export *)

ExportRow(id, name, note) ==
    StringifyObject(<< [k |-> "id", v |-> id], [k |-> "a,b", v |-> name],
                       [k |-> "note", v |-> note] >>)

\* Texts with a comma, a double quote and a line feed, and plain ones
AwkwardRows ==
    << ExportRow(Num(1), Str(<<"A", ",", " ", "\"", "I", "\"">>), Str(<<"n", "1">>)),
       ExportRow(Num(-2), Null, Str(<<"n", "2">>)),
       ExportRow(Undefined, Str(<<"x", "\n", "y">>), Str(<<"n", "3">>)),
       ExportRow(Num(4), Str(<<"A", "b">>), Null) >>

PlainColumns == <<Column("id", "measure"), Column("note", "dimension")>>
SingleColumn == <<Column("note", "dimension")>>
AwkwardColumns == <<Column("id", "measure"), Column("a,b", "dimension")>>

ExportSets ==
    {ResultSet(AwkwardRows, cols) : cols \in {PlainColumns, SingleColumn, AwkwardColumns, <<>>}}
    \cup {ResultSet(FewRows, <<Column("v", "measure")>>),
          ResultSet(ManyRows(pageSize + 1), AllColumns)}

InitExport ==
    /\ InitAtRest
    /\ InitWidgets
    /\ \E r \in ExportSets : dataRows = r.data /\ columns = r.columns
    /\ sortColumn = Null
    /\ sortDirection = Null
    /\ page = 0
    /\ searchTerm = <<>>
    /\ engine = "laterFirst"
    /\ stats = <<>>

NextExport ==
    \/ HandleSort \/ SearchChange \/ SearchClear \/ PreviousPage \/ NextPage
    \/ ToggleExport \/ ClickOutside \/ ExportCSV \/ ExportJSON \/ CopyToClipboard
    \/ CopiedTimeout

SpecExport == InitExport /\ [][NextExport]_vars

----------------------------------------------------------------------------
(* QueryInterface (components/QueryInterface.tsx): the suggestions memo *)

EXAMPLE_QUERIES ==
    <<
      <<"S", "h", "o", "w", " ", "t", "o", "t", "a", "l", " ", "s", "a", "l", "e", "s",
        " ", "b", "y", " ", "c", "a", "t", "e", "g", "o", "r", "y">>,
      <<"W", "h", "a", "t", " ", "i", "s", " ", "t", "h", "e", " ", "t", "r", "e", "n",
        "d", " ", "o", "v", "e", "r", " ", "t", "i", "m", "e", "?">>,
      <<"T", "o", "p", " ", "1", "0", " ", "c", "u", "s", "t", "o", "m", "e", "r", "s",
        " ", "b", "y", " ", "r", "e", "v", "e", "n", "u", "e">>,
      <<"A", "v", "e", "r", "a", "g", "e", " ", "o", "r", "d", "e", "r", " ", "v", "a",
        "l", "u", "e", " ", "b", "y", " ", "m", "o", "n", "t", "h">>,
      <<"D", "i", "s", "t", "r", "i", "b", "u", "t", "i", "o", "n", " ", "o", "f", " ",
        "p", "r", "i", "c", "e", "s">>,
      <<"C", "o", "m", "p", "a", "r", "e", " ", "r", "e", "g", "i", "o", "n", "s", " ",
        "b", "y", " ", "p", "r", "o", "f", "i", "t">>,
      <<"S", "h", "o", "w", " ", "m", "e", " ", "t", "h", "e", " ", "b", "o", "t", "t",
        "o", "m", " ", "5", " ", "p", "r", "o", "d", "u", "c", "t", "s">>,
      <<"M", "o", "n", "t", "h", "l", "y", " ", "g", "r", "o", "w", "t", "h", " ", "r",
        "a", "t", "e">>
    >>

\* A candidate of a fixed list: a text no code looks into.
Fixed(text) == <<text>>

\* pattern: the word of /^word\s*$/i
SMART_SUGGESTIONS ==
    <<
      [pattern |-> <<"s", "h", "o", "w">>,
       suggestions |-> <<Fixed("Show total"), Fixed("Show all"), Fixed("Show top 10"), Fixed("Show trend")>>],
      [pattern |-> <<"t", "o", "t", "a", "l">>,
       suggestions |-> <<Fixed("Total sales by category"), Fixed("Total revenue by month"), Fixed("Total orders")>>],
      [pattern |-> <<"t", "o", "p">>,
       suggestions |-> <<Fixed("Top 10 products"), Fixed("Top 5 customers"), Fixed("Top performing regions")>>],
      [pattern |-> <<"b", "y">>,
       suggestions |-> <<Fixed("by category"), Fixed("by month"), Fixed("by region"), Fixed("by customer")>>],
      [pattern |-> <<"c", "o", "m", "p", "a", "r", "e">>,
       suggestions |-> <<Fixed("Compare regions"), Fixed("Compare products"), Fixed("Compare months")>>]
    >>

TestExact(word, input) == input = word

\* /^word\s*$/i.test(input)
Test(word, input) ==
    /\ Len(input) >= Len(word)
    /\ ToLowerCase(SubSeq(input, 1, Len(word))) = word
    /\ \A i \in (Len(word) + 1)..Len(input) : input[i] \in WhiteSpace

\* [...new Set(items)]: the first occurrence of each item, in order
Distinct(items) ==
    LET first == {i \in 1..Len(items) : \A j \in 1..(i - 1) : items[j] # items[i]}
    IN  [n \in 1..Cardinality(first) |->
            items[CHOOSE i \in first : Cardinality({j \in first : j < i}) = n - 1]]

KeepsEqual(ex, q) == Includes(ToLowerCase(ex), q)

\* ex => ex.toLowerCase().includes(q) && ex.toLowerCase() !== q
Keeps(ex, q) == Includes(ToLowerCase(ex), q) /\ ToLowerCase(ex) # q

\* The body of the suggestions memo
Suggestions(input, recent) ==
    IF Len(Trim(input)) = 0 THEN <<>>
    ELSE IF \E p \in 1..Len(SMART_SUGGESTIONS) : Test(SMART_SUGGESTIONS[p].pattern, input)
    THEN SMART_SUGGESTIONS[CHOOSE p \in 1..Len(SMART_SUGGESTIONS) :
                              /\ Test(SMART_SUGGESTIONS[p].pattern, input)
                              /\ \A o \in 1..(p - 1) :
                                    ~Test(SMART_SUGGESTIONS[o].pattern, input)].suggestions
    ELSE LET q == ToLowerCase(input)
             allQueries == Distinct(recent \o EXAMPLE_QUERIES)
         IN  Slice(SelectSeq(allQueries, LAMBDA ex : Keeps(ex, q)), 5)

\* QueryInterface renders: the memo is computed from question and recentQueries.
RenderSuggestions ==
    /\ lastCall.handler # "renderSuggestions"
    /\ suggestions' = Suggestions(questionInput, recentQueries)
    /\ lastCall' = ViewCall("renderSuggestions", Str(questionInput))
    /\ UNCHANGED <<ledgerVars_but_lastCall, homeVars, viewVars>>
    /\ UNCHANGED <<exportButton, exported, questionInput, recentQueries, serviceVars>>

(* Inputs and histories *)

Inputs ==
    { <<>>, <<" ">>, <<" ", "\t">>,
      <<"s", "h", "o", "w">>, <<"S", "h", "O", "W", " ", "\t">>, <<" ", "s", "h", "o", "w">>,
      <<"s", "h", "o", "w", "s">>, <<"s", "h", "o", "w", " ", "a">>,
      <<"t", "o", "t", "a", "l">>, <<"T", "O", "P", " ", " ">>, <<"b", "y">>, <<"B", "y", " ">>,
      <<"c", "o", "m", "p", "a", "r", "e">>, <<"c", "o", "m", "p", "a", "r", "e", "s">>,
      <<"o">>, <<"S", "H">>, <<"t", "o", "p", " ", "1">>, <<"z">>,
      ToLowerCase(EXAMPLE_QUERIES[8]), EXAMPLE_QUERIES[1] }

\* Questions asked before
Asked ==
    << <<"S", "h", "o", "w", " ", "a", "l", "l">>,
       EXAMPLE_QUERIES[3],
       <<"s", "h", "o", "w">>,
       ToLowerCase(EXAMPLE_QUERIES[1]),
       <<"S", "h", "o", "w", " ", "a", "l", "l">>,
       <<"s", "h", "o", "e">>,
       <<"S", "H", "O", "P">>,
       <<"o", "h", " ", "s", "h">>,
       <<"T", "o", "p", " ", "1">> >>

RecentLists == {SubSeq(Asked, from, to) : from \in 1..3, to \in 0..Len(Asked)}

InitSuggest ==
    /\ InitAtRest
    /\ dataRows = <<>> /\ columns = <<>>
    /\ sortColumn = Null /\ sortDirection = Null
    /\ page = 0 /\ searchTerm = <<>>
    /\ engine = "laterFirst" /\ stats = <<>>
    /\ exportButton = [isOpen |-> FALSE, copied |-> FALSE, timers |-> 0]
    /\ exported = NoExport
    /\ questionInput \in Inputs
    /\ recentQueries \in RecentLists
    /\ suggestions = <<>>

NextSuggest == RenderSuggestions

SpecSuggest == InitSuggest /\ [][NextSuggest]_vars

----------------------------------------------------------------------------
(* ToastProvider (app/page.tsx) *)

MaxToasts == 3          \* toasts added in a run

\* A toast; ids are the numbers 1, 2, ... in the order Math.random() issued
\* them, so no two toasts share an id.
Toast(id, type, duration) == [id |-> id, type |-> type, duration |-> duration]

\* What the callers pass: success, warning and info give no duration, error
\* gives 8000, addToast itself takes any.
ToastArgs ==
    { [type |-> "success", duration |-> Undefined],
      [type |-> "error", duration |-> Num(8000)],
      [type |-> "info", duration |-> Num(0)] }

\* toast.duration ?? 5000
DurationOf(toast) == IF IsNullish(toast.duration) THEN 5000 ELSE toast.duration.n

\* prev => prev.filter(t => t.id !== id)
WithoutToast(prev, id) == SelectSeq(prev, LAMBDA t : t.id # id)

ToastFrame ==
    UNCHANGED <<ledgerVars_but_lastCall, homeVars, viewVars, widgetVars, homeMounted,
                backendStatus, healthInterval, healthChecks>>

\* addToast(toast)
AddToast ==
    /\ toastSeq < MaxToasts
    /\ \E toast \in ToastArgs :
          LET id == toastSeq + 1
          IN  /\ toasts' = Append(toasts, Toast(id, toast.type, toast.duration))
              /\ toastTimers' = IF DurationOf(toast) > 0 THEN toastTimers \cup {id}
                                ELSE toastTimers
              /\ lastCall' = ViewCall("addToast", Num(id))
    /\ toastSeq' = toastSeq + 1
    /\ ToastFrame

\* onRemove of a ToastItem: removeToast(toast.id)
DismissToast ==
    /\ \E i \in 1..Len(toasts) :
          /\ toasts' = WithoutToast(toasts, toasts[i].id)
          /\ lastCall' = ViewCall("dismissToast", Num(toasts[i].id))
    /\ UNCHANGED <<toastTimers, toastSeq>>
    /\ ToastFrame

\* The timer of addToast fires: removeToast(id)
ToastTimeout ==
    /\ \E id \in toastTimers :
          /\ toasts' = WithoutToast(toasts, id)
          /\ toastTimers' = toastTimers \ {id}
          /\ lastCall' = ViewCall("toastTimeout", Num(id))
    /\ UNCHANGED toastSeq
    /\ ToastFrame

InitToast == InitAtRest /\ InitView

NextToast == AddToast \/ DismissToast \/ ToastTimeout

SpecToast == InitToast /\ [][NextToast]_vars

\* Timers fire once their time has passed.
FairToast == SpecToast /\ WF_vars(ToastTimeout)

----------------------------------------------------------------------------
(* The health check of Home (app/page.tsx): checkBackendHealth, the mount
   effect that calls it through init() and on an interval, and its teardown *)

MaxChecks == 3          \* runs of checkBackendHealth in a run of the model

HealthOutcomes == {"ok", "not_ok", "network_error"}

\* setBackendStatus on a component that has unmounted changes nothing.
StatusAfter(status) == IF homeMounted THEN status ELSE backendStatus

HealthFrame ==
    UNCHANGED <<ledgerVars_but_lastCall, tables, selectedTable, isLoading, error, queryResult,
                showHistory, isExpanded, showAll, crashed, viewVars, widgetVars, toasts,
                toastTimers, toastSeq>>

\* The interval fires: checkBackendHealth up to its fetch
HealthTick ==
    /\ healthInterval
    /\ Len(healthChecks) < MaxChecks
    /\ healthChecks' = Append(healthChecks, HealthCheck("tick", "pending", "pending"))
    /\ lastCall' = ViewCall("healthTick", Undefined)
    /\ UNCHANGED <<homeMounted, backendStatus, healthInterval, pending>>
    /\ HealthFrame

\* The fetch of a check settles before its abort timer fires: a response
\* clears the timer, a rejection goes to the catch and leaves it; init()
\* goes on to fetchTables when its check was healthy.
HealthSettle ==
    /\ \E i \in 1..Len(healthChecks) : \E outcome \in HealthOutcomes :
          /\ healthChecks[i].fetch = "pending" /\ healthChecks[i].timer = "pending"
          /\ healthChecks' =
                [healthChecks EXCEPT ![i] =
                    HealthCheck(@.by, "settled",
                                IF outcome = "network_error" THEN "pending" ELSE "cleared")]
          /\ backendStatus' = StatusAfter(IF outcome = "ok" THEN "connected" ELSE "disconnected")
          /\ pending' = IF outcome = "ok" /\ healthChecks[i].by = "mount"
                        THEN Append(pending, Fetch("tables", Undefined, Undefined))
                        ELSE pending
          /\ lastCall' = [NoCall EXCEPT !.handler = "healthSettle", !.outcome = outcome]
    /\ UNCHANGED <<homeMounted, healthInterval>>
    /\ HealthFrame

\* The 5 s timer of a check fires: controller.abort(); a fetch still pending
\* rejects and the catch sets the status
HealthAbort ==
    /\ \E i \in 1..Len(healthChecks) :
          /\ healthChecks[i].timer = "pending"
          /\ healthChecks' = [healthChecks EXCEPT ![i] = HealthCheck(@.by, "settled", "fired")]
          /\ backendStatus' = IF healthChecks[i].fetch = "pending"
                              THEN StatusAfter("disconnected") ELSE backendStatus
          /\ lastCall' = [NoCall EXCEPT !.handler = "healthAbort",
                                        !.outcome = healthChecks[i].fetch]
    /\ UNCHANGED <<homeMounted, healthInterval, pending>>
    /\ HealthFrame

\* Home unmounts: the cleanup of the mount effect runs clearInterval(interval)
HomeUnmount ==
    /\ homeMounted
    /\ homeMounted' = FALSE
    /\ healthInterval' = FALSE
    /\ lastCall' = ViewCall("homeUnmount", Undefined)
    /\ UNCHANGED <<backendStatus, healthChecks, pending>>
    /\ HealthFrame

InitHealth == InitAtRest /\ InitView

NextHealth == HealthTick \/ HealthSettle \/ HealthAbort \/ HomeUnmount

SpecHealth == InitHealth /\ [][NextHealth]_vars

----------------------------------------------------------------------------
(* The results view inside the page *)

\* {queryResult && !isLoading && ( ... <DataTable .../> ... )}
TableMounted == queryResult # NoResult /\ ~isLoading

\* The result sets a /query response may carry.
Arrivals ==
    {ResultSet(ManyRows(pageSize + 1), AllColumns), ResultSet(FewRows, AllColumns)}

\* The render that follows a handler of Home, given the rows of queryResult
\* after it. A DataTable that stays mounted keeps its state (it is rendered
\* without a key); one that mounts starts from its useState initial values, and
\* so does the ExportButton inside it, whose timer is not cancelled.
RenderResults(rows, cols) ==
    /\ dataRows' = rows
    /\ columns' = cols
    /\ IF TableMounted /\ TableMounted'
       THEN UNCHANGED <<sortColumn, sortDirection, page, searchTerm, exportButton>>
       ELSE /\ sortColumn' = Null
            /\ sortDirection' = Null
            /\ page' = 0
            /\ searchTerm' = <<>>
            /\ exportButton' = [exportButton EXCEPT !.isOpen = FALSE, !.copied = FALSE]
    /\ UNCHANGED <<engine, stats, exported, questionInput, recentQueries, suggestions>>
    /\ UNCHANGED serviceVars

\* handleSubmit and the render after it
ResultsSubmit == SubmitQuestion /\ RenderResults(dataRows, columns)

\* onReplay and the render after it
ResultsReplay == ReplayQuestion /\ RenderResults(dataRows, columns)

\* The settled fetch of handleQuery and the render after it:
\* setQueryResult(data) hands data.data and data.columns to the DataTable.
ResultsResponse ==
    \E r \in Arrivals :
        /\ QuerySettles
        /\ IF lastCall'.outcome = "ok"
           THEN RenderResults(r.data, r.columns)
           ELSE RenderResults(dataRows, columns)

\* A handler of the DataTable that is on the screen
ResultsTable == TableMounted /\ NextTable

\* An earlier query of the session has been answered, which took two handler
\* runs: its entry is in the ledger and its result set is on the screen, the
\* DataTable just mounted.
InitResults ==
    /\ storage = JSONstringify(EarlierLedger(1))
    /\ history = [i \in Instances |->
                     IF i = "page" THEN EarlierLedger(1) ELSE ArrayOf(<<>>)]
    /\ mounted = [i \in Instances |-> i = "page"]
    /\ hydrated = [i \in Instances |-> i = "page"]
    /\ clock = SessionStart
    /\ nextRand = SessionStart
    /\ lastCall = [NoCall EXCEPT !.n = 2]
    /\ removed = {}
    /\ tables = << <<"t">> >>
    /\ selectedTable = Str(<<"t">>)
    /\ isLoading = FALSE
    /\ error = Null
    /\ queryResult = ResultOf(ResponseData)
    /\ showHistory = FALSE
    /\ isExpanded = FALSE
    /\ showAll = FALSE
    /\ pending = <<>>
    /\ crashed = FALSE
    /\ InitWidgets
    /\ InitServices
    /\ \E r \in Arrivals : dataRows = r.data /\ columns = r.columns
    /\ sortColumn = Null
    /\ sortDirection = Null
    /\ page = 0
    /\ searchTerm = <<>>
    /\ engine \in Engines
    /\ stats = <<>>

NextResults ==
    \/ ResultsSubmit \/ ResultsReplay \/ ResultsResponse
    \/ OpenHistory \/ ToggleExpanded
    \/ ResultsTable

SpecResults == InitResults /\ [][NextResults]_vars

----------------------------------------------------------------------------
(* Properties of the ledger *)

Ledger == history["page"]
Entries == Ledger.items
Before == lastCall.before.items
Added == lastCall.op = "add"
Removed == lastCall.op = "remove"

QuestionText(e) == ToLowerCase(Get(e, "question").s)

\* The entries of s that also occur in t, in the order s has them.
Surviving(s, t) == SelectSeq(s, LAMBDA e : \E i \in 1..Len(t) : t[i] = e)

\* C1: the ledger and the stored ledger never hold more than MAX_HISTORY
\* entries; adding a question that is not yet there to a ledger of exactly
\* MAX_HISTORY entries leaves exactly MAX_HISTORY, the new entry followed by
\* all former entries but the last one (the oldest).
C1_Capacity ==
    /\ Len(Entries) <= MAX_HISTORY
    /\ Len(storage.doc.items) <= MAX_HISTORY
    /\ (Added /\ ~lastCall.hit /\ Len(Before) = MAX_HISTORY) =>
          /\ Len(Entries) = MAX_HISTORY
          /\ Tail(Entries) = SubSeq(Before, 1, MAX_HISTORY - 1)
          /\ ~HasId(Ledger, Get(Before[MAX_HISTORY], "id"))

C1_Witness == Added /\ ~lastCall.hit /\ Len(Before) = MAX_HISTORY

\* C2: no two entries of the ledger have questions equal ignoring case; after
\* addToHistory of a question that was already there (ignoring case) the one
\* entry for it is the new one, at index 0: a new id, a timestamp not older
\* than the replaced one, and the metadata of this call.
C2_Dedup ==
    /\ \A i \in 1..Len(Entries) : \A j \in (i + 1)..Len(Entries) :
          QuestionText(Entries[i]) # QuestionText(Entries[j])
    /\ (Added /\ lastCall.hit) =>
          /\ Len(Entries) = Len(Before)
          /\ QuestionText(Entries[1]) = ToLowerCase(lastCall.arg.s)
          /\ Get(Entries[1], "id") \notin IdsOf(lastCall.before)
          /\ \A k \in {"question", "sql", "tableName", "rowCount", "executionTime",
                       "confidence"} :
                Get(Entries[1], k) = Get(lastCall.item, k)
          /\ \A i \in 1..Len(Before) :
                QuestionText(Before[i]) = ToLowerCase(lastCall.arg.s) =>
                    Get(Entries[1], "timestamp").n >= Get(Before[i], "timestamp").n

C2_Witness ==
    /\ Added /\ lastCall.hit
    /\ \E i \in 1..Len(Before) :
          /\ QuestionText(Before[i]) = ToLowerCase(lastCall.arg.s)
          /\ Get(Before[i], "question") # lastCall.arg

\* C3: after addToHistory or removeFromHistory the stored value is the
\* serialization of the ledger the call produced; after clearHistory the
\* ledger is empty and the key is absent.
C3_Persistence ==
    /\ (Added \/ Removed) => storage = JSONstringify(Ledger)
    /\ lastCall.op = "clear" => Ledger = ArrayOf(<<>>) /\ storage = Absent

C3_Witness == Removed /\ lastCall.hit /\ Len(Entries) > 0 /\ storage # Absent

\* C7: addToHistory puts the new entry at index 0 and keeps the other entries
\* that are not duplicates in their former order; removeFromHistory keeps the
\* order of what it leaves; the ledger is sorted by timestamp, newest first.
C7_Ordering ==
    /\ Added =>
          /\ Get(Entries[1], "question") = lastCall.arg
          /\ Get(Entries[1], "id") \notin IdsOf(lastCall.before)
          /\ Tail(Entries) = Surviving(Before, Tail(Entries))
          /\ \A i \in 1..Len(Before) :
                QuestionText(Before[i]) # ToLowerCase(lastCall.arg.s) =>
                    \/ \E j \in 2..Len(Entries) : Entries[j] = Before[i]
                    \/ Len(Entries) = MAX_HISTORY
    /\ Removed => Entries = Surviving(Before, Entries)
    /\ \A i \in 1..(Len(Entries) - 1) :
          Get(Entries[i], "timestamp").n >= Get(Entries[i + 1], "timestamp").n

C7_Witness ==
    /\ Added /\ lastCall.hit /\ Len(Entries) >= 2
    /\ QuestionText(Before[1]) # ToLowerCase(lastCall.arg.s)
    /\ Get(Entries[1], "timestamp").n > Get(Entries[2], "timestamp").n

\* C8: removeFromHistory(id) never throws; for an id that is not in the
\* ledger it leaves the entries and their order as they were; for an id that
\* is, it removes that one entry and no other; a second call changes nothing.
C8_RemoveById ==
    Removed =>
        /\ ~lastCall.threw
        /\ ~lastCall.hit => Entries = Before
        /\ lastCall.hit =>
              \E i \in 1..Len(Before) :
                  /\ Get(Before[i], "id") = lastCall.arg
                  /\ Entries = Drop(Before, i)
        /\ ~HasId(Ledger, lastCall.arg)
        /\ RemoveUpdater(Ledger, lastCall.arg) = Ledger

C8_Witness ==
    /\ Removed /\ ~lastCall.hit /\ lastCall.arg \in removed
    /\ lastCall.arg # StrangerId /\ Len(Before) > 0

----------------------------------------------------------------------------
(* Properties of hydration *)

\* An array whose elements all are history entries.
IsLedger(h) ==
    /\ IsArray(h)
    /\ \A i \in 1..Len(h.items) :
          /\ IsString(Get(h.items[i], "id"))
          /\ IsString(Get(h.items[i], "question"))
          /\ Get(h.items[i], "timestamp").ty = "number"

\* C5: whatever the storage key holds, the mount effect leaves the ledger
\* either the stored array of entries or empty, and no later addToHistory or
\* removeFromHistory throws.
C5_HydrationNeverFails ==
    /\ hydrated["page"] => IsLedger(Ledger)
    /\ lastCall.op = "hydrate" =>
          \/ Ledger = ArrayOf(<<>>)
          \/ storage.kind = "json" /\ Ledger = storage.doc
    /\ ~lastCall.threw

----------------------------------------------------------------------------
(* Properties of the Home page *)

PageLedger == history["page"]

HandlerRan(handlers) == lastCall'.n # lastCall.n /\ lastCall'.handler \in handlers

\* C4: an entry removed or cleared in the history panel is in neither the
\* stored ledger nor the page's history after an addToHistory of the page.
C4_RemovedStaysRemoved ==
    (lastCall.handler = "queryResponse" /\ lastCall.op = "add" /\ ~lastCall.threw) =>
        \A id \in removed :
            /\ ~HasId(PageLedger, id)
            /\ ~HasId(storage.doc, id)

IsDefined(v) == v.ty # "undefined"

\* C9: the entry a successful query adds has an id no other entry has, the
\* question, a timestamp, and the row count, execution time and confidence of
\* the response.
C9_EntryComplete ==
    (lastCall.handler = "queryResponse" /\ lastCall.outcome = "ok" /\ ~lastCall.threw) =>
        LET e == PageLedger.items[1]
        IN  /\ \A i \in 2..Len(PageLedger.items) :
                  Get(PageLedger.items[i], "id") # Get(e, "id")
            /\ Get(e, "question") = lastCall.arg
            /\ Get(e, "timestamp").ty = "number"
            /\ Get(e, "rowCount") = Get(ResponseData, "row_count")
            /\ Get(e, "executionTime") = Get(ResponseData, "execution_time_ms")
            /\ IsDefined(Get(e, "confidence"))
            /\ Get(e, "confidence") = Get(ResponseData, "confidence")

\* C10: handleQuery with no table selected sets the error message, sends no
\* request, and leaves isLoading, queryResult, the tables, the selected table,
\* the ledger and the stored ledger as they were.
C10_NoTableNoEffect ==
    [][(HandlerRan({"submit", "example", "replay"}) /\ ~Truthy(selectedTable)) =>
            /\ error' = Message("Please upload data first")
            /\ pending' = pending
            /\ isLoading' = isLoading
            /\ queryResult' = queryResult
            /\ tables' = tables
            /\ selectedTable' = selectedTable
            /\ PageLedger' = PageLedger
            /\ storage' = storage
      ]_vars

C10_Witness ==
    /\ lastCall.outcome = "rejected"
    /\ error = Message("Please upload data first")
    /\ isLoading /\ Len(pending) > 0

----------------------------------------------------------------------------
(* Properties of the results table *)

SortActive == Truthy(sortColumn) /\ Truthy(sortDirection)

\* C11: from the unsorted state, selecting the same column again and again
\* goes asc, desc, none, asc; selecting a column other than the sort column
\* gives that column asc; a sort column and a direction are there together
\* or not at all.
C11_SortCycle ==
    [][lastCall'.handler = "handleSort" =>
          LET c == lastCall'.arg
          IN  /\ sortColumn # c => sortColumn' = c /\ sortDirection' = Asc
              /\ (sortColumn = c /\ sortDirection = Asc) =>
                    sortColumn' = c /\ sortDirection' = Desc
              /\ (sortColumn = c /\ sortDirection = Desc) =>
                    sortColumn' = Null /\ sortDirection' = Null
              /\ (sortColumn = Null) <=> (sortDirection = Null)
              /\ (sortColumn' = Null) <=> (sortDirection' = Null)
      ]_vars

C11_Witness ==
    /\ lastCall.handler = "handleSort"
    /\ sortColumn = Null /\ sortDirection = Null

\* C12: every step that changes searchTerm leaves page = 0.
C12_SearchResetsPage == [][searchTerm' # searchTerm => page' = 0]_vars

\* The row has, in a declared column, a value that is not null or undefined
\* and whose lower-cased string form contains the lower-cased term.
Contains(row, term) ==
    \E c \in 1..Len(columns) :
        /\ Get(row, columns[c].name).ty \in {"number", "string"}
        /\ Includes(ToLowerCase(StringOf(Get(row, columns[c].name))), ToLowerCase(term))

\* C13: a row is in the filtered set exactly if the term is the empty string
\* or one of its declared values contains the term, ignoring case; the
\* retained rows are in their original order.
C13_FilterSemantics ==
    /\ \A i \in 1..Len(dataRows) :
          (\E j \in 1..Len(filteredData) : filteredData[j] = dataRows[i])
              <=> (searchTerm = <<>> \/ Contains(dataRows[i], searchTerm))
    /\ filteredData = Surviving(dataRows, filteredData)

SortKey(row) == Get(row, sortColumn.s[1])

\* C14: with a sort active, in either direction, no row without a value in
\* the sort column comes before a row that has one; 5, null, 3 gives
\* 3, 5, null ascending and 5, 3, null descending.
C14_NullsLast ==
    SortActive =>
        /\ LET sorted == sortedData
           IN  \A i \in 1..Len(sorted) : \A j \in 1..Len(sorted) :
                  (i < j /\ IsNullish(SortKey(sorted[i]))) => IsNullish(SortKey(sorted[j]))
        /\ (dataRows = FewRows /\ searchTerm = <<>> /\ sortColumn = Message("v")) =>
              sortedData = IF sortDirection = Asc
                           THEN <<FewRows[3], FewRows[1], FewRows[2]>>
                           ELSE <<FewRows[1], FewRows[3], FewRows[2]>>

C14_Witness ==
    /\ SortActive /\ sortDirection = Desc /\ sortColumn = Message("v")
    /\ dataRows = TiedRows /\ searchTerm = <<>>
    /\ Cardinality({i \in 1..Len(sortedData) : IsNullish(SortKey(sortedData[i]))}) > 1
    /\ ~IsNullish(SortKey(sortedData[1]))

RECURSIVE PagesFrom(_, _, _)
PagesFrom(rows, p, n) ==
    IF p >= n THEN <<>> ELSE PageOf(rows, p) \o PagesFrom(rows, p + 1, n)

\* C15: the pages 0 .. totalPages - 1, one after the other, are the sorted
\* filtered rows; a page at or past totalPages is empty.
C15_PagesPartition ==
    LET sorted == sortedData
    IN  /\ PagesFrom(sorted, 0, totalPages) = sorted
        /\ Len(sorted) = Len(filteredData)
        /\ \A p \in totalPages..(totalPages + 1) : PageOf(sorted, p) = <<>>
        /\ \A p \in 0..(totalPages - 1) : Len(PageOf(sorted, p)) > 0

C15_Witness ==
    /\ SortActive /\ Len(searchTerm) > 0
    /\ Len(filteredData) > pageSize /\ Len(filteredData) % pageSize # 0
    /\ Len(filteredData) < Len(dataRows)
    /\ page = totalPages - 1

\* The rows of s whose sort key is that of row.
WithKeyOf(s, row) == SelectSeq(s, LAMBDA r : SortKey(r) = SortKey(row))

\* C16: with no sort the displayed order is the filtered order; with a sort
\* the sorted rows are the filtered rows, and those with the same sort key
\* are in their original relative order.
C16_SortKeepsInput ==
    /\ ~SortActive => sortedData = filteredData
    /\ SortActive =>
          LET filtered == filteredData
              sorted == sortedData
          IN  /\ Len(sorted) = Len(filtered)
              /\ \A i \in 1..Len(filtered) :
                    WithKeyOf(sorted, filtered[i]) = WithKeyOf(filtered, filtered[i])

----------------------------------------------------------------------------
(* Properties of the summary cards *)

Rendered == lastCall.handler = "renderStats"

\* The place of a card's label in the fixed order of the cards.
CardRank(card) ==
    CASE card.label = "Total Rows" -> 1
      [] card.label = "Total" -> 2
      [] card.label = "Avg" -> 3
      [] OTHER -> 4

\* The cards that carry the label.
CardsLabelled(label) == SelectSeq(stats, LAMBDA card : card.label = label)

\* C17: the calculator returns at most 4 cards, in the order row count,
\* Total, Avg, Change, each at most once, and none for a result set without
\* rows.
C17_CardsInOrder ==
    Rendered =>
        /\ Len(stats) <= 4
        /\ \A i \in 1..Len(stats) : stats[i].label \in {"Total Rows", "Total", "Avg", "Change"}
        /\ \A i \in 1..(Len(stats) - 1) : CardRank(stats[i]) < CardRank(stats[i + 1])
        /\ Len(dataRows) = 0 => stats = <<>>

C17_Witness ==
    /\ Rendered /\ Len(stats) = 4
    /\ stats[2].column = "revenue" /\ stats[3].column = "units"

\* C18: for a result set with at least one row the first card is the row
\* count card, and it shows the number of rows, whatever the columns are.
C18_RowCountFirst ==
    (Rendered /\ Len(dataRows) >= 1) =>
        /\ Len(stats) >= 1
        /\ stats[1].label = "Total Rows"
        /\ stats[1].value = Text(NumberToString(Len(dataRows)))

\* The name of the first measure column, "" when there is none.
FirstMeasure ==
    IF \E c \in 1..Len(columns) : columns[c].type = "measure"
    THEN columns[CHOOSE c \in 1..Len(columns) :
                    /\ columns[c].type = "measure"
                    /\ \A b \in 1..(c - 1) : columns[b].type # "measure"].name
    ELSE ""

FirstValue == Get(dataRows[1], FirstMeasure)
LastValue == Get(dataRows[Len(dataRows)], FirstMeasure)

\* C19: with a first measure and at least 2 rows whose first and last values
\* of it are numbers, there is no Change card when the first value is 0;
\* otherwise there is one, for (last - first) / |first| * 100 with one
\* decimal, signed "+" and trend up when last >= first, trend down when
\* last < first; 100, 200, 300 gives +200.0%.
C19_ChangeCard ==
    (/\ Rendered /\ FirstMeasure # "" /\ Len(dataRows) >= 2
     /\ FirstValue.ty = "number" /\ LastValue.ty = "number") =>
        IF FirstValue.n = 0 THEN CardsLabelled("Change") = <<>>
        ELSE /\ Len(CardsLabelled("Change")) = 1
             /\ LET card == CardsLabelled("Change")[1]
                    up == LastValue.n >= FirstValue.n
                    tenths == Rounded(Abs(LastValue.n - FirstValue.n) * 1000, Abs(FirstValue.n))
                IN  /\ card.trend = IF up THEN "up" ELSE "down"
                    /\ card.value.s =
                          (IF up THEN <<"+">> ELSE <<"-">>)
                          \o NumberToString(tenths \div 10)
                          \o <<".", DigitChars[(tenths % 10) + 1], "%">>
                    /\ (FirstValue.n = 100 /\ LastValue.n = 300) =>
                          card.value.s = <<"+", "2", "0", "0", ".", "0", "%">>

C19_Witness ==
    /\ Rendered /\ Len(dataRows) = 3 /\ FirstMeasure = "revenue"
    /\ Get(dataRows[1], "revenue") = Num(100)
    /\ Get(dataRows[2], "revenue") = Num(200)
    /\ Get(dataRows[3], "revenue") = Num(300)
    /\ Len(CardsLabelled("Change")) = 1

\* The places of the rows whose value of the first measure is a number.
NumericPlaces == {i \in 1..Len(dataRows) : Get(dataRows[i], FirstMeasure).ty = "number"}

RECURSIVE SumOver(_)
SumOver(places) ==
    IF places = {} THEN 0
    ELSE LET i == CHOOSE j \in places : TRUE
         IN  Get(dataRows[i], FirstMeasure).n + SumOver(places \ {i})

\* C20: with a first measure that has a number in some row, the Total card
\* shows the sum of the numbers of that column and, as "Avg", that sum
\* divided by how many numbers there are; values that are not numbers count
\* for neither; with no number there is no Total card; 100, 200, 300 gives
\* 600 and 200.
C20_TotalCard ==
    (Rendered /\ FirstMeasure # "") =>
        IF NumericPlaces = {} THEN CardsLabelled("Total") = <<>>
        ELSE /\ Len(CardsLabelled("Total")) = 1
             /\ LET card == CardsLabelled("Total")[1]
                    total == SumOver(NumericPlaces)
                IN  /\ card.column = FirstMeasure
                    /\ card.value.s = formatNumber(Ratio(total, 1))
                    /\ card.subValue.s =
                          <<"A", "v", "g", ":", " ">>
                          \o formatNumber(Ratio(total, Cardinality(NumericPlaces)))
                    /\ (total = 600 /\ Cardinality(NumericPlaces) = 3) =>
                          /\ card.value.s = <<"6", "0", "0">>
                          /\ card.subValue.s = <<"A", "v", "g", ":", " ", "2", "0", "0">>

C20_Witness ==
    /\ Rendered /\ FirstMeasure = "revenue" /\ Len(dataRows) = 3
    /\ Cardinality(NumericPlaces) = 2
    /\ Get(dataRows[2], "revenue") = Null
    /\ Len(CardsLabelled("Total")) = 1
    /\ CardsLabelled("Total")[1].subValue.s = <<"A", "v", "g", ":", " ", "2", "0", "0">>

----------------------------------------------------------------------------
(* Properties of the export *)

ExportHandlers == {"exportCSV", "exportJSON", "copyToClipboard"}

\* The text of the rows in the given encoding.
Encoded(kind, rows, cols) ==
    CASE kind = "csv" -> CsvContent(rows, cols)
      [] kind = "json" -> JsonContent(rows)
      [] OTHER -> TsvContent(rows, cols)

\* C21: in every view state, whatever the sort and the page are, an export
\* that wrote something wrote the encoding of the filtered rows in the order
\* of the result set; the export is offered exactly when there is a filtered
\* row, and an export handler has run only then.
C21_ExportScope ==
    LET rows == FilterRows(dataRows, columns, searchTerm)
    IN  /\ (lastCall.handler \in ExportHandlers /\ lastCall.outcome = "done") =>
              exported = Export(exported.kind, Encoded(exported.kind, rows, columns))
        /\ lastCall.handler \in ExportHandlers \cup {"toggleExport"} => Len(rows) > 0
        /\ ExportOffered <=> Len(rows) > 0

C21_Witness ==
    /\ lastCall.handler = "exportCSV"
    /\ page = 1 /\ sortDirection = Desc
    /\ exported.kind = "csv"
    /\ paginatedData # filteredData /\ sortedData # filteredData

(* A reader of quoted CSV (RFC 4180 with line feeds): a comma or a line feed
   separates only outside quotes; a field in quotes stands for its inside,
   with each doubled quote read as one. *)

QuotesBefore(text, i) == Cardinality({j \in 1..(i - 1) : text[j] = "\""})

OutsideQuotes(text, i) == QuotesBefore(text, i) % 2 = 0

\* The numbers of a set, ascending.
Ascending(S) ==
    [i \in 1..Cardinality(S) |-> CHOOSE x \in S : Cardinality({y \in S : y < x}) = i - 1]

\* text[from..to], cut at the separators
Pieces(text, from, to, seps) ==
    LET cuts == <<from - 1>> \o Ascending(seps) \o <<to + 1>>
    IN  [i \in 1..(Len(cuts) - 1) |-> SubSeq(text, cuts[i] + 1, cuts[i + 1] - 1)]

Unquoted(field) ==
    IF Len(field) >= 2 /\ field[1] = "\"" /\ field[Len(field)] = "\""
    THEN LET inner == SubSeq(field, 2, Len(field) - 1)
             keep == {j \in 1..Len(inner) :
                        inner[j] # "\"" \/ QuotesBefore(inner, j) % 2 = 0}
         IN  [i \in 1..Cardinality(keep) |-> inner[Ascending(keep)[i]]]
    ELSE field

\* The records of the text, each the sequence of its fields.
ParseCsv(text) ==
    LET ends == <<0>>
                \o Ascending({i \in 1..Len(text) : text[i] = "\n" /\ OutsideQuotes(text, i)})
                \o <<Len(text) + 1>>
    IN  [l \in 1..(Len(ends) - 1) |->
            LET fields ==
                    Pieces(text, ends[l] + 1, ends[l + 1] - 1,
                           {i \in (ends[l] + 1)..(ends[l + 1] - 1) :
                               text[i] = "," /\ OutsideQuotes(text, i)})
            IN  [f \in 1..Len(fields) |-> Unquoted(fields[f])]]

\* C22: every field of the CSV is the value's string form, in double quotes
\* with the inner double quotes doubled exactly when the string form has a
\* comma, a double quote or a line feed, and empty for null and undefined;
\* read back, the first record gives the column names and record r + 1
\* gives the string form of every value of row r that is not null.
C22_CsvRoundTrip ==
    lastCall.handler = "exportCSV" =>
        LET rows == FilterRows(dataRows, columns, searchTerm)
            parsed == ParseCsv(exported.content)
        IN  /\ Len(parsed) >= 1 + Len(rows)
            /\ \A c \in 1..Len(columns) :
                  /\ Len(parsed[1]) >= c
                  /\ parsed[1][c] = Chars(columns[c].name)
            /\ \A r \in 1..Len(rows) : \A c \in 1..Len(columns) :
                  LET val == Get(rows[r], columns[c].name)
                      text == IF IsNullish(val) THEN <<>> ELSE StringOf(val)
                  IN  /\ CsvField(val) =
                            IF NeedsQuotes(text)
                            THEN <<"\"">> \o DoubleQuotes(text) \o <<"\"">>
                            ELSE text
                      /\ ~IsNullish(val) =>
                            /\ Len(parsed[r + 1]) >= c
                            /\ parsed[r + 1][c] = text

\* The keys of the rows that are not the name of a declared column.
UndeclaredKeys ==
    UNION {{dataRows[r][i].k : i \in 1..Len(dataRows[r])} : r \in 1..Len(dataRows)}
        \ {columns[c].name : c \in 1..Len(columns)}

\* The texts held under undeclared keys.
UndeclaredTexts ==
    {Get(dataRows[r], k).s : r \in 1..Len(dataRows), k \in UndeclaredKeys} \ {<<>>}

\* C23: neither the table nor any export shows a key that is not a declared
\* column, or a text held under such a key.
C23_UndeclaredKeysHidden ==
    /\ \A k \in UndeclaredKeys : \A c \in 1..Len(TableHeaders) : TableHeaders[c] # Chars(k)
    /\ \A t \in UndeclaredTexts : \A r \in 1..Len(TableCells) :
          \A c \in 1..Len(columns) : ~Includes(TableCells[r][c], t)
    /\ exported.kind # "none" =>
          /\ \A k \in UndeclaredKeys : ~Includes(exported.content, Chars(k))
          /\ \A t \in UndeclaredTexts : ~Includes(exported.content, t)

----------------------------------------------------------------------------
(* Properties of the suggestions *)

SuggestionsRendered == lastCall.handler = "renderSuggestions"

\* The place of the first trigger whose word, in any case and followed by
\* nothing but white space, is the whole input; 0 when there is none.
Trigger(input) ==
    LET hits == {p \in 1..Len(SMART_SUGGESTIONS) :
                    ToLowerCase(TrimEnd(input)) = SMART_SUGGESTIONS[p].pattern}
    IN  IF hits = {} THEN 0 ELSE CHOOSE p \in hits : \A o \in hits : p <= o

\* C24: no candidates for an input that is empty when trimmed; otherwise,
\* when a trigger matches the raw input, the candidates are the fixed list of
\* the first such trigger, whatever the history holds; "show" gives the four
\* candidates of show.
C24_TriggerPrecedence ==
    SuggestionsRendered =>
        /\ Len(Trim(questionInput)) = 0 => suggestions = <<>>
        /\ (Len(Trim(questionInput)) # 0 /\ Trigger(questionInput) # 0) =>
              suggestions = SMART_SUGGESTIONS[Trigger(questionInput)].suggestions
        /\ questionInput = <<"s", "h", "o", "w">> =>
              suggestions = <<Fixed("Show total"), Fixed("Show all"),
                              Fixed("Show top 10"), Fixed("Show trend")>>

C24_Witness ==
    /\ SuggestionsRendered
    /\ questionInput = <<"S", "h", "O", "W", " ", "\t">>
    /\ \E i \in 1..Len(recentQueries) : Includes(ToLowerCase(recentQueries[i]), <<"s", "h", "o", "w">>)
    /\ suggestions = SMART_SUGGESTIONS[1].suggestions

\* The pool: the history questions, then the example questions.
Pool == recentQueries \o EXAMPLE_QUERIES

\* The first place of a candidate in the pool.
PoolPlace(c) == CHOOSE i \in 1..Len(Pool) : Pool[i] = c /\ \A j \in 1..(i - 1) : Pool[j] # c

\* The candidate contains the input and is not the input, case ignored.
Matching(c) ==
    /\ Includes(ToLowerCase(c), ToLowerCase(questionInput))
    /\ ToLowerCase(c) # ToLowerCase(questionInput)

InHistory(c) == \E i \in 1..Len(recentQueries) : recentQueries[i] = c

\* C25: when no trigger matches an input that is not empty when trimmed, the
\* candidates are matching questions of the pool, each once, in pool order,
\* at most 5, with no matching question of the pool skipped before the last
\* candidate; history questions come before questions that are examples
\* only; computing them leaves the history list as it was.
C25_SuggestionPool ==
    [][(lastCall'.handler = "renderSuggestions"
        /\ Len(Trim(questionInput)) # 0 /\ Trigger(questionInput) = 0) =>
          LET result == suggestions'
              listed == {result[i] : i \in 1..Len(result)}
              all == {Pool[i] : i \in 1..Len(Pool)}
          IN  /\ Len(result) <= 5
              /\ \A i \in 1..Len(result) : result[i] \in all /\ Matching(result[i])
              /\ \A i, j \in 1..Len(result) :
                    i < j => PoolPlace(result[i]) < PoolPlace(result[j])
              /\ \A c \in all :
                    (/\ Matching(c) /\ c \notin listed) =>
                        /\ Len(result) = 5
                        /\ PoolPlace(c) > PoolPlace(result[5])
              /\ \A i, j \in 1..Len(result) :
                    (InHistory(result[j]) /\ ~InHistory(result[i])) => j < i
              /\ recentQueries' = recentQueries
              /\ questionInput' = questionInput]_vars

C25_Witness ==
    /\ SuggestionsRendered
    /\ Len(Trim(questionInput)) # 0 /\ Trigger(questionInput) = 0
    /\ Len(suggestions) = 5
    /\ InHistory(suggestions[1]) /\ ~InHistory(suggestions[5])
    /\ \E i, j \in 1..Len(recentQueries) : i # j /\ recentQueries[i] = recentQueries[j]
    /\ \E i \in 1..Len(Pool) : Matching(Pool[i]) /\ PoolPlace(Pool[i]) > PoolPlace(suggestions[5])

----------------------------------------------------------------------------
(* Properties of the toasts *)

ToastIds(list) == {list[i].id : i \in 1..Len(list)}

\* C26: a pending auto-dismiss timer always belongs to a toast still in the
\* list (a dismissed toast's timer is cancelled), and removeToast(id), by
\* the dismiss button or by a timer, takes out the toast of that id only and
\* changes nothing when the id is not in the list.
C26_ToastTimers ==
    [][/\ toastTimers' \subseteq ToastIds(toasts')
       /\ lastCall'.handler \in {"dismissToast", "toastTimeout"} =>
            LET id == lastCall'.arg.n
            IN  /\ id \notin ToastIds(toasts) => toasts' = toasts
                /\ toasts' = SelectSeq(toasts, LAMBDA t : t.id # id)
                /\ ToastIds(toasts') = ToastIds(toasts) \ {id}]_vars

----------------------------------------------------------------------------
(* Properties of the health check *)

\* C27: while Home is mounted the interval is registered and the check of
\* the mount has been started; once Home is torn down no tick fires any more
\* and no timer of the health check is pending, neither the interval nor the
\* abort timer of any check.
C27_HealthLifecycle ==
    /\ homeMounted =>
          /\ healthInterval
          /\ Len(healthChecks) >= 1 /\ healthChecks[1].by = "mount"
    /\ ~homeMounted =>
          /\ lastCall.handler # "healthTick"
          /\ ~healthInterval
          /\ \A i \in 1..Len(healthChecks) : healthChecks[i].timer # "pending"

----------------------------------------------------------------------------
(* Properties of the page *)

\* C28: a replay that sends a request sends the question of one of the
\* entries the panel shows, for the selected table, and leaves the stored
\* ledger and the page's ledger as they were.
C28_ReplaySendsQuestion ==
    [][(lastCall'.handler = "replay" /\ lastCall'.outcome = "sent") =>
          /\ \E i \in 1..Len(DisplayedHistory) :
                pending'[Len(pending')] =
                    Fetch("query", Get(DisplayedHistory[i], "question"), selectedTable)
          /\ storage' = storage
          /\ history'["page"] = history["page"]]_vars

\* The requests to /query and /upload that have not settled.
InFlight == SelectSeq(pending, LAMBDA f : f.url \in {"query", "upload"})

\* C29: at most one request to /query or /upload is in flight, and isLoading
\* is true exactly while there is one.
C29_OneInFlight ==
    /\ Len(InFlight) <= 1
    /\ isLoading <=> Len(InFlight) = 1

----------------------------------------------------------------------------
(* Properties of the results view inside the page *)

\* C30: whenever the table is on the screen, page is at least 0; it is below
\* totalPages when the filtered set is non-empty, so that the displayed page
\* has rows, and it is 0 when the filtered set is empty.
C30_PageInRange ==
    TableMounted =>
        /\ page >= 0
        /\ Len(filteredData) > 0 => page < totalPages /\ Len(paginatedData) > 0
        /\ Len(filteredData) = 0 => page = 0

====
